---- MODULE Spec2Model ----
(***************************************************************************)
(* A model of shared_state<T> (src/shared_state.h): cells that own a value *)
(* and a readers-writer mutex, and the guards read_ptr / write_ptr that    *)
(* threads obtain with read(), write(), try_read() and try_write().        *)
(*                                                                         *)
(* Time is discrete.  A thread inside try_lock_for / try_lock_shared_for   *)
(* carries the time that is left of its timeout; Tick lets one unit of     *)
(* time pass for every timed waiter at once.  Time between two calls of a  *)
(* thread is not counted: a thread that is not inside a call may start its *)
(* next call any number of Ticks later.                                    *)
(***************************************************************************)
EXTENDS Integers, Sequences, FiniteSets, TLC

\* ------------------------------------------------------------------ bounds

\* The guard objects one thread may have at a time, and the longest timeout.
MaxGuards == 2
MaxTimeout == 1

\* The threads and the cells a specification may use.  Init says which of
\* them exist: a thread that was never started stays "off", a cell that was
\* never constructed is not in the domain of timeout_ms.
Threads == {"t1", "t2"}
Cells == {"a", "b"}

\* The values timeout_ms() of a traits class may return: negative (wait for
\* ever), zero, and the positive durations up to MaxTimeout.
TimeoutValues == (-1)..MaxTimeout

\* A guard object: the cell it was made from, read_ptr or write_ptr, and
\* whether px is non-null.
Guards == [c : Cells, mode : {"read", "write"}, px : BOOLEAN]

NoCall == [op |-> "none", c |-> "none", timeout_ms |-> 0, attempt |-> 0,
           entered |-> FALSE, remaining |-> 0]
NoResult == [kind |-> "none", op |-> "none", c |-> "none",
             timeout_value |-> 0, try_again_value |-> FALSE, backtrace |-> <<>>]

VARIABLES
    timeout_ms,     \* shared_state_details::timeout_ms of each constructed cell
    write_entered,  \* the mutex of each cell: a writer has entered
    n_readers,      \* the mutex of each cell: the number of shared owners
    guards,         \* how many guard objects of each kind each thread has
    pc,             \* each thread: "off", "idle", "waiting", "probe_unlock"
    call,           \* the locals of the lock() a thread is inside of
    result,         \* how the last finished call of each thread ended
    verify_execution_time_ms,   \* shared_state_details, of each cell
    watched,        \* how many guard objects of each kind have a running pc
    resetting,      \* the guard whose unlock() a thread is inside of
    ptrs,           \* the shared_state objects: members p and d, constness
    weak,           \* a shared_state::weak_ptr and the lock() running on it
    use_count,      \* of each value and details: the number of shared_ptr
    deleted,        \* of each value and details: delete has run
    address,        \* where the allocator has put each value
    types,          \* what the type of each cell's value declares as traits
    value,          \* the value of type T that each cell guards
    released,       \* the value of each cell when a write guard last let go
    seen,           \* what each thread has read through its read guard
    vet,            \* the VerifyExecutionTime object of each thread, if any
    held_for,       \* for how long each thread has held its locked guard
    reports,        \* how often each thread has called a report function
    unwinding,      \* std::uncaught_exception() of each thread
    default_report_func_,  \* VerifyExecutionTime::default_report_func_
    called,         \* the report function each thread called last
    barrier,        \* a spinning_barrier or locking_barrier: its members
    waiter,         \* each thread of the barrier: where in wait() it is
    SHARED_STATE_NO_BACKTRACE,  \* the build defines this macro
    expect,         \* a use of EXPECT_EXCEPTION (X, F): how far it has come
    construction,   \* an object of a class being constructed or destroyed
    thread_info_map \* TaskTimer: the ThreadInfo of each registered thread

vars == <<timeout_ms, write_entered, n_readers, guards, pc, call, result,
          verify_execution_time_ms, watched, resetting,
          ptrs, weak, use_count, deleted, address, types,
          value, released, seen, vet, held_for, reports, unwinding,
          default_report_func_, called,
          barrier, waiter, SHARED_STATE_NO_BACKTRACE, expect, construction,
          thread_info_map>>

\* The execution-time watcher of the guards: VerifyExecutionTime::ptr pc.
watcher == <<verify_execution_time_ms, watched, resetting>>

\* The shared_ptr members p and d of the cells, guards and weak_ptr.
\* What no step of a run changes.
unchanging == <<address, types>>

owners == <<ptrs, weak, use_count, deleted, unchanging>>

\* The guarded values and what the threads read from them.
values == <<value, released, seen>>

\* The execution times that are verified, and the reports made.
reporting == <<vet, held_for, reports, unwinding, default_report_func_,
               called>>

\* What the cells, their guards and their owners are no part of.
apart == <<values, reporting, barrier, waiter, SHARED_STATE_NO_BACKTRACE,
           expect, construction, thread_info_map>>
beside_values == <<reporting, barrier, waiter, SHARED_STATE_NO_BACKTRACE,
                   expect, construction, thread_info_map>>
beside_reporting == <<values, barrier, waiter, SHARED_STATE_NO_BACKTRACE,
                      expect, construction, thread_info_map>>
beside_barrier == <<values, reporting, SHARED_STATE_NO_BACKTRACE,
                    expect, construction, thread_info_map>>
beside_expect == <<values, reporting, barrier, waiter,
                   SHARED_STATE_NO_BACKTRACE, construction, thread_info_map>>
beside_construction == <<values, reporting, barrier, waiter,
                         SHARED_STATE_NO_BACKTRACE, expect, thread_info_map>>
beside_thread_info_map == <<values, reporting, barrier, waiter,
                            SHARED_STATE_NO_BACKTRACE, expect, construction>>

\* What the steps of lock() and of the mutex leave alone.
outside_lock == <<watcher, owners, apart>>

\* ------------------------------------------------- the readers-writer mutex
\* std_polyfill::shared_timed_mutex: one flag and one counter.  An exclusive
\* locker first waits until no writer has entered and enters, then waits
\* until the readers have left; a shared locker waits while a writer has
\* entered, also one that is still waiting for the readers to leave.

try_lock_ok(c) == ~write_entered[c] /\ n_readers[c] = 0

try_lock_shared_ok(c) == ~write_entered[c]

\* ---------------------------------------------------------------- helpers

RECURSIVE Sum(_, _)
Sum(f, S) == IF S = {} THEN 0
             ELSE LET x == CHOOSE y \in S : TRUE IN f[x] + Sum(f, S \ {x})

NumGuards(t) == Sum(guards[t], Guards)

CanConstruct(t) == pc[t] = "idle" /\ NumGuards(t) < MaxGuards

NewGuard(c, mode, locked) == [c |-> c, mode |-> mode, px |-> locked]

PutGuard(t, g) == guards' = [guards EXCEPT ![t][g] = @ + 1]

\* The frames of a thread inside Backtrace::make that was called from lock(),
\* the innermost first, as backtrace() returns them: lock() was called by
\* the constructor of the guard, that by read() or write().
lock_stack(op) ==
    <<"Backtrace::make", "lock",
      IF op = "write" THEN "write_ptr" ELSE "read_ptr", op, "caller">>

\* A slip: Backtrace::make that keeps the frames it is to skip, and no other.
Backtrace_make_skipped(skipFrames, stack) ==
    IF Len(stack) <= skipFrames
    THEN <<"Backtrace::make failed">>
    ELSE SubSeq(stack, 1, skipFrames)

\* Backtrace::make (skipFrames): the frames of the calling thread without the
\* first skipFrames of them; a message when there are no more than those.
Backtrace_make(skipFrames, stack) ==
    IF Len(stack) <= skipFrames
    THEN <<"Backtrace::make failed">>
    ELSE SubSeq(stack, skipFrames + 1, Len(stack))

\* SHARED_STATE_THROW_EXCEPTION(x): BOOST_THROW_EXCEPTION(x << Backtrace::make
\* (2)), and BOOST_THROW_EXCEPTION(x) when SHARED_STATE_NO_BACKTRACE is
\* defined: what the exception carries as its Backtrace::info.
thrown_backtrace(op) ==
    IF SHARED_STATE_NO_BACKTRACE THEN <<>> ELSE Backtrace_make(2, lock_stack(op))

\* A slip: the throw without "<< try_again_value{try_again}"; the catcher
\* finds no try_again and takes it for false.
lock_failed_without_try_again(op, c, timeout, try_again) ==
    [kind |-> "lock_failed", op |-> op, c |-> c,
     timeout_value |-> timeout, try_again_value |-> FALSE,
     backtrace |-> thrown_backtrace(op)]

\* The exception of SHARED_STATE_THROW_EXCEPTION(lock_failed{} << timeout_value
\* << try_again_value), as the caller catches it.
lock_failed(op, c, timeout, try_again) ==
    [kind |-> "lock_failed", op |-> op, c |-> c,
     timeout_value |-> timeout, try_again_value |-> try_again,
     backtrace |-> thrown_backtrace(op)]

\* A call that returned its guard (kind "guard": px # 0, "empty": px = 0).
Returned(kind, op, c) ==
    [kind |-> kind, op |-> op, c |-> c,
     timeout_value |-> 0, try_again_value |-> FALSE, backtrace |-> <<>>]

\* The cells that have been constructed.
LiveCells == DOMAIN timeout_ms

\* The names of the shared_state objects of a run.
Ptrs == {"ptr1", "ptr2", "ptr3"}

\* shared_state(): p and d are empty.
NoPtr == [p |-> "none", d |-> "none", is_const |-> FALSE, op |-> "idle"]

\* weak_ptr(): data and p are empty; no lock() is running on it.
NoWeak == [data |-> "none", p |-> "none", step |-> "idle", datap |-> "none",
           into |-> "none", returned |-> "none"]

\* shared_state(Y* p) for each of the cells: p.reset (yp) and
\* d.reset (new details) make the cell the one owner of both.
Allocated(cells) ==
    /\ ptrs = [s \in Ptrs |->
                 IF s = "ptr1" /\ "a" \in cells
                 THEN [NoPtr EXCEPT !.p = "a", !.d = "a"]
                 ELSE IF s = "ptr2" /\ "b" \in cells
                 THEN [NoPtr EXCEPT !.p = "b", !.d = "b"]
                 ELSE NoPtr]
    /\ weak = NoWeak
    /\ use_count = [c \in Cells |-> IF c \in cells THEN [p |-> 1, d |-> 1]
                                                    ELSE [p |-> 0, d |-> 0]]
    /\ deleted = [c \in Cells |-> [p |-> FALSE, d |-> FALSE]]

\* The cells have been allocated one after the other, at rising addresses.
RisingAddresses == address = [c \in Cells |-> IF c = "a" THEN 1 ELSE 2]

\* The values a test stores in a cell: A::a (int v).
MaxValue == 1
Values == 0..MaxValue

\* What a thread has read through the read guard it holds, if anything.
NotSeen == [read |-> FALSE, v |-> 0]

\* T's constructor leaves the value at 0, and nothing has been read.
Unread ==
    /\ value = [c \in Cells |-> 0]
    /\ released = [c \in Cells |-> 0]
    /\ seen = [t \in Threads |-> NotSeen]

\* No VerifyExecutionTime object, no guard held.
NoVet == [running |-> FALSE, owner |-> "none", expected_time_ |-> 0,
          elapsed |-> 0, report_func_ |-> "0"]

\* No report function was called.
NotCalled == [func |-> "0", default_then |-> "0"]
NotHeld == [held |-> FALSE, c |-> "none", time |-> 0]

\* No scope is being timed, nothing was reported, no exception was thrown.
Unreported ==
    /\ vet = [t \in Threads |-> NoVet]
    /\ held_for = [t \in Threads |-> NotHeld]
    /\ reports = [t \in Threads |-> 0]
    /\ unwinding = [t \in Threads |-> FALSE]
    /\ default_report_func_ = "0"
    /\ called = [t \in Threads |-> NotCalled]

\* At most MaxN threads meet at a barrier, each at most MaxRounds times.
\* step_ is an unsigned counter that may wrap; it has StepBits bits here.
MaxN == 3
MaxRounds == 2
StepBits == 1

Participants == 1..MaxN

\* A thread outside wait(): how many calls it has made, how many have
\* returned and what the last one returned.
Outside == [pc |-> "idle", step |-> 0, calls |-> 0, returns |-> 0, ret |-> FALSE]

\* spinning_barrier (n), locking_barrier (n): nwait_ (0), step_ (0); m_ is
\* unlocked (0, or else the thread that owns it).
Barrier(kind, n) == [kind |-> kind, n_ |-> n, nwait_ |-> 0, step_ |-> 0, m_ |-> 0]

\* There is no barrier.
NoBarrier ==
    /\ barrier = Barrier("none", 0)
    /\ waiter = [i \in Participants |-> Outside]

\* SHARED_STATE_NO_BACKTRACE is not defined.
DefaultBuild == SHARED_STATE_NO_BACKTRACE = FALSE

\* Nothing else has begun.
\* No use of EXPECT_EXCEPTION has begun.
NoExpect == [X |-> "none", F |-> "nothing", step |-> "none",
             in_flight |-> "nothing", thrown |-> FALSE, raised |-> "nothing"]

\* No object is being constructed.
NoException == [type |-> "none", value |-> 0]
NoConstruction == [step |-> "none", class |-> "none", storage |-> "none",
                   allocated |-> FALSE, inner |-> FALSE,
                   inner_destructor |-> FALSE, outer_destructor |-> FALSE,
                   exception |-> NoException]

NoExceptions == expect = NoExpect /\ construction = NoConstruction

\* At most MaxLogThreads threads log with TaskTimer, each with at most
\* MaxDepth nested TaskTimer objects at a time.
MaxLogThreads == 3
MaxDepth == 2
LogThreads == 1..MaxLogThreads

\* std::map<thread::id,ThreadInfo> thread_info_map, empty: no thread has an
\* entry.
NoThreadInfo == [registered |-> FALSE, threadNumber |-> 0, counter |-> 0]

NoLogging == thread_info_map = [t \in LogThreads |-> NoThreadInfo]

Nothing_apart ==
    Unread /\ Unreported /\ NoBarrier /\ DefaultBuild /\ NoExceptions
    /\ NoLogging

\* No thread has asked for a guard yet: the mutexes are unlocked.
Fresh(started) ==
    /\ Nothing_apart
    /\ write_entered = [c \in Cells |-> FALSE]
    /\ n_readers = [c \in Cells |-> 0]
    /\ guards = [t \in Threads |-> [g \in Guards |-> 0]]
    /\ pc = [t \in Threads |-> IF t \in started THEN "idle" ELSE "off"]
    /\ call = [t \in Threads |-> NoCall]
    /\ result = [t \in Threads |-> NoResult]

\* A type whose traits are a specialization shared_state_traits<C> with the
\* given timeout_ms(), as for class A of the tests.
Specialized(v) ==
    [nested |-> [kind |-> "none", timeout_ms |-> 0],
     specialization |-> [kind |-> "specialization", timeout_ms |-> v]]

\* shared_state(Y* p), reset(p): the details of a new cell take timeout_ms
\* from the traits of the type; the mutex is constructed unlocked.  All cells
\* are of one type, so they have the same timeout.
Constructed(cells, started) ==
    /\ \E v \in TimeoutValues :
          /\ timeout_ms = [c \in cells |-> v]
          /\ types = [c \in Cells |-> Specialized(v)]
    /\ Fresh(started)
    /\ Allocated(cells)

\* No guard object has a watcher yet, and no thread is inside unlock().
NoGuard == [c |-> "none", mode |-> "none", px |-> FALSE, dtor |-> FALSE]

Unwatched ==
    /\ watched = [t \in Threads |-> [g \in Guards |-> 0]]
    /\ resetting = [t \in Threads |-> NoGuard]

\* shared_state_traits_default in a release build: verify_execution_time_ms()
\* returns -1, which keeps the guards from starting a watcher.
release_verify_execution_time_ms == -1

ReleaseBuild ==
    /\ verify_execution_time_ms =
           [c \in LiveCells |-> release_verify_execution_time_ms]
    /\ Unwatched

\* Two threads that share one cell.
Init == Constructed({"a"}, {"t1", "t2"}) /\ ReleaseBuild /\ RisingAddresses

\* ------------------------------------------------- what the claims speak of

\* The guards of thread t on cell c that own a share of the lock.
HeldR(t, c) == guards[t][[c |-> c, mode |-> "read", px |-> TRUE]]
HeldW(t, c) == guards[t][[c |-> c, mode |-> "write", px |-> TRUE]]
Held(t, c) == HeldR(t, c) + HeldW(t, c)

AllHeldR(c) == Sum([t \in Threads |-> HeldR(t, c)], Threads)
AllHeldW(c) == Sum([t \in Threads |-> HeldW(t, c)], Threads)

\* Thread t is inside read() or write() on cell c.
InCall(t, op, c) == pc[t] \in {"waiting", "probe_unlock"}
                    /\ call[t].op = op /\ call[t].c = c

\* Thread t owns the mutex of c inside lock(), between a second attempt that
\* got the lock and its unlock.
Probing(t, op, c) == pc[t] = "probe_unlock" /\ call[t].op = op /\ call[t].c = c

\* Thread t has entered the mutex of c as a writer and waits for the readers.
Entered(t, c) == pc[t] = "waiting" /\ call[t].c = c /\ call[t].entered

\* Every share of a mutex belongs to a guard with px # 0 or to a thread
\* inside lock(), and the other way round.
MutexMatchesGuards ==
    \A c \in Cells :
        /\ n_readers[c] = AllHeldR(c)
                          + Cardinality({t \in Threads : Probing(t, "read", c)})
        /\ write_entered[c] <=>
               \/ AllHeldW(c) > 0
               \/ \E t \in Threads : Probing(t, "write", c) \/ Entered(t, c)

\* ------------------------------------------------- read_ptr and write_ptr

\* lock(): int timeout_ms = d->timeout_ms, read once when lock() starts.
local_timeout_ms(c) == timeout_ms[c]

\* A slip: lock() without its "else if (timeout_ms < 0)" branch; a negative
\* timeout goes to try_lock_for, which gives up at once.
first_wait_always_timed(timeout) == 1

\* A slip: lock() with "timeout_ms <= 0" for "timeout_ms < 0"; a timeout of
\* zero goes to l.lock().
first_wait_zero_waits(timeout) == IF timeout <= 0 THEN 0 ELSE 1

\* lock(): which wait follows a failed try_lock: "else if (timeout_ms < 0)"
\* goes to l.lock() (attempt 0), else to the first timed attempt.
first_wait(timeout) == IF timeout < 0 THEN 0 ELSE 1

\* The locals of lock() when it goes on to wait.
StartWait(op, c) ==
    [op |-> op, c |-> c, timeout_ms |-> local_timeout_ms(c),
     attempt |-> first_wait(local_timeout_ms(c)),
     entered |-> FALSE,
     remaining |-> IF first_wait(local_timeout_ms(c)) = 0
                   THEN 0 ELSE local_timeout_ms(c)]

\* A slip: the no_lock_failed constructor without its "px = 0".
px_never_reset(locked) == TRUE

\* The no_lock_failed constructors: px is initialised non-null;
\* "if (!l.try_lock ()) px = 0".
px_no_lock_failed(locked) == locked

\* A slip: write_ptr::lock() copied from read_ptr::lock() with the shared
\* calls left in.
write_ptr_lock_shared_calls(t, c) ==
    /\ CanConstruct(t)
    /\ IF try_lock_shared_ok(c)
       THEN /\ n_readers' = [n_readers EXCEPT ![c] = @ + 1]
            /\ PutGuard(t, NewGuard(c, "write", TRUE))
            /\ result' = [result EXCEPT ![t] = Returned("guard", "write", c)]
            /\ UNCHANGED <<pc, call>>
       ELSE /\ pc' = [pc EXCEPT ![t] = "waiting"]
            /\ call' = [call EXCEPT ![t] = StartWait("read", c)]
            /\ result' = [result EXCEPT ![t] = NoResult]
            /\ UNCHANGED <<n_readers, guards>>
    /\ UNCHANGED <<timeout_ms, write_entered>>

\* A slip: write_ptr::lock() without its first "if (l.try_lock ())": every
\* call starts with the timed path.
write_ptr_lock_timed_first(t, c) ==
    /\ CanConstruct(t)
    /\ pc' = [pc EXCEPT ![t] = "waiting"]
    /\ call' = [call EXCEPT ![t] = StartWait("write", c)]
    /\ result' = [result EXCEPT ![t] = NoResult]
    /\ UNCHANGED <<write_entered, guards>>
    /\ UNCHANGED <<timeout_ms, n_readers>>

\* write_ptr::write_ptr(const shared_state&) and the non-waiting start of
\* write_ptr::lock(): the timeout is read once into a local, try_lock() is
\* tried, and when it fails the call goes on to lock() (timeout_ms < 0) or to
\* the first try_lock_for (timeout_ms >= 0).
write_ptr_lock(t, c) ==
    /\ CanConstruct(t)
    /\ IF try_lock_ok(c)
       THEN /\ write_entered' = [write_entered EXCEPT ![c] = TRUE]
            /\ PutGuard(t, NewGuard(c, "write", TRUE))
            /\ result' = [result EXCEPT ![t] = Returned("guard", "write", c)]
            /\ UNCHANGED <<pc, call>>
       ELSE /\ pc' = [pc EXCEPT ![t] = "waiting"]
            /\ call' = [call EXCEPT ![t] = StartWait("write", c)]
            /\ result' = [result EXCEPT ![t] = NoResult]
            /\ UNCHANGED <<write_entered, guards>>
    /\ UNCHANGED <<timeout_ms, n_readers>>

\* A slip: read_ptr::lock() calling l.try_lock() where l.try_lock_shared()
\* is meant.
read_ptr_lock_exclusive_try(t, c) ==
    /\ CanConstruct(t)
    /\ IF try_lock_ok(c)
       THEN /\ n_readers' = [n_readers EXCEPT ![c] = @ + 1]
            /\ PutGuard(t, NewGuard(c, "read", TRUE))
            /\ result' = [result EXCEPT ![t] = Returned("guard", "read", c)]
            /\ UNCHANGED <<pc, call>>
       ELSE /\ pc' = [pc EXCEPT ![t] = "waiting"]
            /\ call' = [call EXCEPT ![t] = StartWait("read", c)]
            /\ result' = [result EXCEPT ![t] = NoResult]
            /\ UNCHANGED <<n_readers, guards>>
    /\ UNCHANGED <<timeout_ms, write_entered>>

\* A slip: read_ptr::lock() that returns its guard without l.try_lock_shared ().
read_ptr_lock_without_lock(t, c) ==
    /\ CanConstruct(t)
    /\ PutGuard(t, NewGuard(c, "read", TRUE))
    /\ result' = [result EXCEPT ![t] = Returned("guard", "read", c)]
    /\ UNCHANGED <<pc, call>>
    /\ UNCHANGED <<n_readers, timeout_ms, write_entered>>

\* read_ptr::read_ptr(const shared_state&) and the non-waiting start of
\* read_ptr::lock().
read_ptr_lock(t, c) ==
    /\ CanConstruct(t)
    /\ IF try_lock_shared_ok(c)
       THEN /\ n_readers' = [n_readers EXCEPT ![c] = @ + 1]
            /\ PutGuard(t, NewGuard(c, "read", TRUE))
            /\ result' = [result EXCEPT ![t] = Returned("guard", "read", c)]
            /\ UNCHANGED <<pc, call>>
       ELSE /\ pc' = [pc EXCEPT ![t] = "waiting"]
            /\ call' = [call EXCEPT ![t] = StartWait("read", c)]
            /\ result' = [result EXCEPT ![t] = NoResult]
            /\ UNCHANGED <<n_readers, guards>>
    /\ UNCHANGED <<timeout_ms, write_entered>>

\* write_ptr::write_ptr(const shared_state&, no_lock_failed): one try_lock();
\* px = 0 when it fails.
write_ptr_no_lock_failed(t, c) ==
    /\ CanConstruct(t)
    /\ IF try_lock_ok(c)
       THEN /\ write_entered' = [write_entered EXCEPT ![c] = TRUE]
            /\ PutGuard(t, NewGuard(c, "write", px_no_lock_failed(TRUE)))
            /\ result' = [result EXCEPT ![t] = Returned("guard", "try_write", c)]
       ELSE /\ PutGuard(t, NewGuard(c, "write", px_no_lock_failed(FALSE)))
            /\ result' = [result EXCEPT ![t] =
                   Returned(IF px_no_lock_failed(FALSE) THEN "guard" ELSE "empty",
                            "try_write", c)]
            /\ UNCHANGED write_entered
    /\ UNCHANGED <<timeout_ms, n_readers, pc, call>>

\* read_ptr::read_ptr(const shared_state&, no_lock_failed): one
\* try_lock_shared(); px = 0 when it fails.
read_ptr_no_lock_failed(t, c) ==
    /\ CanConstruct(t)
    /\ IF try_lock_shared_ok(c)
       THEN /\ n_readers' = [n_readers EXCEPT ![c] = @ + 1]
            /\ PutGuard(t, NewGuard(c, "read", px_no_lock_failed(TRUE)))
            /\ result' = [result EXCEPT ![t] = Returned("guard", "try_read", c)]
       ELSE /\ PutGuard(t, NewGuard(c, "read", px_no_lock_failed(FALSE)))
            /\ result' = [result EXCEPT ![t] =
                   Returned(IF px_no_lock_failed(FALSE) THEN "guard" ELSE "empty",
                            "try_read", c)]
            /\ UNCHANGED n_readers
    /\ UNCHANGED <<timeout_ms, write_entered, pc, call>>

\* ----------------------------------------- the waits inside lock()

Waiting(t, op) == pc[t] = "waiting" /\ call[t].op = op

\* The exclusive lock of the mutex is there for the taking: this thread has
\* entered as the writer and the readers have left.
ExclusiveReady(t) == call[t].entered /\ n_readers[call[t].c] = 0

\* The wait of an exclusive locker is over without the lock: no time is left
\* and another writer has entered, or readers are still inside.
ExclusiveTimedOut(t) ==
    /\ call[t].attempt # 0
    /\ call[t].remaining <= 0
    /\ IF call[t].entered THEN n_readers[call[t].c] > 0 ELSE write_entered[call[t].c]

SharedReady(t) == ~write_entered[call[t].c]

SharedTimedOut(t) ==
    /\ call[t].attempt # 0
    /\ call[t].remaining <= 0
    /\ write_entered[call[t].c]

\* lock(), try_lock_for(): the first half of an exclusive lock.  The writer
\* enters as soon as no other writer has; from then on no reader gets in.
mutex_enter_exclusive(t) ==
    /\ Waiting(t, "write")
    /\ ~call[t].entered
    /\ ~write_entered[call[t].c]
    /\ write_entered' = [write_entered EXCEPT ![call[t].c] = TRUE]
    /\ call' = [call EXCEPT ![t].entered = TRUE]
    /\ UNCHANGED <<timeout_ms, n_readers, guards, pc, result>>
    /\ UNCHANGED outside_lock

\* write_ptr::lock(): l.lock() or the first l.try_lock_for(timeout_ms)
\* returns with the lock; lock() returns and the guard is complete.
write_ptr_lock_got(t) ==
    /\ Waiting(t, "write")
    /\ call[t].attempt \in {0, 1}
    /\ ExclusiveReady(t)
    /\ PutGuard(t, NewGuard(call[t].c, "write", TRUE))
    /\ result' = [result EXCEPT ![t] =
                     Returned("guard", "write", call[t].c)]
    /\ pc' = [pc EXCEPT ![t] = "idle"]
    /\ call' = [call EXCEPT ![t] = NoCall]
    /\ UNCHANGED <<timeout_ms, write_entered, n_readers>>

\* A slip: a lock() that starts the first timed attempt over and over.
write_ptr_lock_retry_for_ever(t) ==
    /\ Waiting(t, "write")
    /\ call[t].attempt = 1
    /\ ExclusiveTimedOut(t)
    /\ write_entered' = [write_entered EXCEPT ![call[t].c] =
                            IF call[t].entered THEN FALSE ELSE @]
    /\ call' = [call EXCEPT ![t].attempt = 1, ![t].entered = FALSE,
                            ![t].remaining = call[t].timeout_ms]
    /\ UNCHANGED <<timeout_ms, n_readers, guards, pc, result>>
    /\ UNCHANGED outside_lock

\* A slip: a lock() that throws when its first timed attempt has failed,
\* without a second one.
write_ptr_lock_throw_at_once(t) ==
    /\ Waiting(t, "write")
    /\ call[t].attempt = 1
    /\ ExclusiveTimedOut(t)
    /\ write_entered' = [write_entered EXCEPT ![call[t].c] =
                            IF call[t].entered THEN FALSE ELSE @]
    /\ result' = [result EXCEPT ![t] =
                     lock_failed("write", call[t].c, call[t].timeout_ms, FALSE)]
    /\ pc' = [pc EXCEPT ![t] = "idle"]
    /\ call' = [call EXCEPT ![t] = NoCall]
    /\ UNCHANGED <<timeout_ms, n_readers, guards>>
    /\ UNCHANGED outside_lock

\* write_ptr::lock(): the first l.try_lock_for(timeout_ms) returns false; the
\* second one starts, with the same local timeout_ms.
write_ptr_lock_retry(t) ==
    /\ Waiting(t, "write")
    /\ call[t].attempt = 1
    /\ ExclusiveTimedOut(t)
    /\ write_entered' = [write_entered EXCEPT ![call[t].c] =
                            IF call[t].entered THEN FALSE ELSE @]
    /\ call' = [call EXCEPT ![t].attempt = 2, ![t].entered = FALSE,
                            ![t].remaining = call[t].timeout_ms]
    /\ UNCHANGED <<timeout_ms, n_readers, guards, pc, result>>
    /\ UNCHANGED outside_lock

\* write_ptr::lock(): bool try_again = l.try_lock_for(timeout_ms) is true.
\* The thread owns the mutex until it has run l.unlock().
write_ptr_lock_try_again(t) ==
    /\ Waiting(t, "write")
    /\ call[t].attempt = 2
    /\ ExclusiveReady(t)
    /\ pc' = [pc EXCEPT ![t] = "probe_unlock"]
    /\ UNCHANGED <<timeout_ms, write_entered, n_readers, guards, call, result>>
    /\ UNCHANGED outside_lock

\* A slip: the throw of write_ptr::lock() without "if (try_again)
\* l.unlock ()" before it.
write_ptr_lock_throw_locked(t) ==
    /\ pc[t] = "probe_unlock"
    /\ call[t].op = "write"
    /\ result' = [result EXCEPT ![t] =
                     lock_failed("write", call[t].c, call[t].timeout_ms, TRUE)]
    /\ pc' = [pc EXCEPT ![t] = "idle"]
    /\ call' = [call EXCEPT ![t] = NoCall]
    /\ UNCHANGED <<timeout_ms, write_entered, n_readers, guards>>
    /\ UNCHANGED outside_lock

\* write_ptr::lock(): if (try_again) l.unlock(); then the throw with
\* try_again_value true.  The constructor throws: there is no guard.
write_ptr_lock_unlock_throw(t) ==
    /\ pc[t] = "probe_unlock"
    /\ call[t].op = "write"
    /\ write_entered' = [write_entered EXCEPT ![call[t].c] = FALSE]
    /\ result' = [result EXCEPT ![t] =
                     lock_failed("write", call[t].c, call[t].timeout_ms, TRUE)]
    /\ pc' = [pc EXCEPT ![t] = "idle"]
    /\ call' = [call EXCEPT ![t] = NoCall]
    /\ UNCHANGED <<timeout_ms, n_readers, guards>>
    /\ UNCHANGED outside_lock

\* A slip: the else branch of write_ptr::lock() without its throw, so that
\* lock() returns and the constructor completes.
write_ptr_lock_no_throw(t) ==
    /\ Waiting(t, "write")
    /\ call[t].attempt = 2
    /\ ExclusiveTimedOut(t)
    /\ write_entered' = [write_entered EXCEPT ![call[t].c] =
                            IF call[t].entered THEN FALSE ELSE @]
    /\ PutGuard(t, NewGuard(call[t].c, "write", TRUE))
    /\ result' = [result EXCEPT ![t] = Returned("guard", "write", call[t].c)]
    /\ pc' = [pc EXCEPT ![t] = "idle"]
    /\ call' = [call EXCEPT ![t] = NoCall]
    /\ UNCHANGED <<timeout_ms, n_readers>>
    /\ UNCHANGED outside_lock

\* A slip: the throw of write_ptr::lock() with try_again_value{!try_again}.
write_ptr_lock_throw_negated(t) ==
    /\ Waiting(t, "write")
    /\ call[t].attempt = 2
    /\ ExclusiveTimedOut(t)
    /\ write_entered' = [write_entered EXCEPT ![call[t].c] =
                            IF call[t].entered THEN FALSE ELSE @]
    /\ result' = [result EXCEPT ![t] =
                     lock_failed("write", call[t].c, call[t].timeout_ms, TRUE)]
    /\ pc' = [pc EXCEPT ![t] = "idle"]
    /\ call' = [call EXCEPT ![t] = NoCall]
    /\ UNCHANGED <<timeout_ms, n_readers, guards>>
    /\ UNCHANGED outside_lock

\* write_ptr::lock(): the second l.try_lock_for(timeout_ms) returns false; the
\* throw with try_again_value false.
write_ptr_lock_throw(t) ==
    /\ Waiting(t, "write")
    /\ call[t].attempt = 2
    /\ ExclusiveTimedOut(t)
    /\ write_entered' = [write_entered EXCEPT ![call[t].c] =
                            IF call[t].entered THEN FALSE ELSE @]
    /\ result' = [result EXCEPT ![t] =
                     lock_failed("write", call[t].c, call[t].timeout_ms, FALSE)]
    /\ pc' = [pc EXCEPT ![t] = "idle"]
    /\ call' = [call EXCEPT ![t] = NoCall]
    /\ UNCHANGED <<timeout_ms, n_readers, guards>>
    /\ UNCHANGED outside_lock

\* read_ptr::lock(): l.lock_shared() or the first l.try_lock_shared_for
\* returns with the lock.
read_ptr_lock_got(t) ==
    /\ Waiting(t, "read")
    /\ call[t].attempt \in {0, 1}
    /\ SharedReady(t)
    /\ n_readers' = [n_readers EXCEPT ![call[t].c] = @ + 1]
    /\ PutGuard(t, NewGuard(call[t].c, "read", TRUE))
    /\ result' = [result EXCEPT ![t] =
                     Returned("guard", "read", call[t].c)]
    /\ pc' = [pc EXCEPT ![t] = "idle"]
    /\ call' = [call EXCEPT ![t] = NoCall]
    /\ UNCHANGED <<timeout_ms, write_entered>>

\* read_ptr::lock(): the first l.try_lock_shared_for returns false.
read_ptr_lock_retry(t) ==
    /\ Waiting(t, "read")
    /\ call[t].attempt = 1
    /\ SharedTimedOut(t)
    /\ call' = [call EXCEPT ![t].attempt = 2,
                            ![t].remaining = call[t].timeout_ms]
    /\ UNCHANGED <<timeout_ms, write_entered, n_readers, guards, pc, result>>
    /\ UNCHANGED outside_lock

\* read_ptr::lock(): bool try_again = l.try_lock_shared_for(...) is true.
read_ptr_lock_try_again(t) ==
    /\ Waiting(t, "read")
    /\ call[t].attempt = 2
    /\ SharedReady(t)
    /\ n_readers' = [n_readers EXCEPT ![call[t].c] = @ + 1]
    /\ pc' = [pc EXCEPT ![t] = "probe_unlock"]
    /\ UNCHANGED <<timeout_ms, write_entered, guards, call, result>>
    /\ UNCHANGED outside_lock

\* read_ptr::lock(): if (try_again) l.unlock_shared(); then the throw.
read_ptr_lock_unlock_throw(t) ==
    /\ pc[t] = "probe_unlock"
    /\ call[t].op = "read"
    /\ n_readers' = [n_readers EXCEPT ![call[t].c] = @ - 1]
    /\ result' = [result EXCEPT ![t] =
                     lock_failed("read", call[t].c, call[t].timeout_ms, TRUE)]
    /\ pc' = [pc EXCEPT ![t] = "idle"]
    /\ call' = [call EXCEPT ![t] = NoCall]
    /\ UNCHANGED <<timeout_ms, write_entered, guards>>
    /\ UNCHANGED outside_lock

\* read_ptr::lock(): the second l.try_lock_shared_for returns false.
read_ptr_lock_throw(t) ==
    /\ Waiting(t, "read")
    /\ call[t].attempt = 2
    /\ SharedTimedOut(t)
    /\ result' = [result EXCEPT ![t] =
                     lock_failed("read", call[t].c, call[t].timeout_ms, FALSE)]
    /\ pc' = [pc EXCEPT ![t] = "idle"]
    /\ call' = [call EXCEPT ![t] = NoCall]
    /\ UNCHANGED <<timeout_ms, write_entered, n_readers, guards>>
    /\ UNCHANGED outside_lock

\* ------------------------------------------------------- releasing a guard

\* The mutex after l.unlock() (write_ptr) or l.unlock_shared() (read_ptr).
MutexReleased(g) ==
    /\ write_entered' = [write_entered EXCEPT ![g.c] =
                            IF g.mode = "write" THEN FALSE ELSE @]
    /\ n_readers' = [n_readers EXCEPT ![g.c] =
                            IF g.mode = "read" THEN @ - 1 ELSE @]

\* A slip: unlock() without its "if (px)".
unlock_without_px_test(t, g) ==
    /\ pc[t] = "idle"
    /\ guards[t][g] > 0
    /\ MutexReleased(g)
    /\ guards' = [guards EXCEPT ![t][g] = @ - 1,
                                ![t][[g EXCEPT !.px = FALSE]] = @ + 1]
    /\ UNCHANGED <<timeout_ms, pc, call, result>>

\* read_ptr::unlock(), write_ptr::unlock(): if (px) the lock is released;
\* px = 0.  The guard object stays.
unlock(t, g) ==
    /\ pc[t] = "idle"
    /\ guards[t][g] > 0
    /\ IF g.px
       THEN MutexReleased(g)
       ELSE UNCHANGED <<write_entered, n_readers>>
    /\ guards' = [guards EXCEPT ![t][g] = @ - 1,
                                ![t][[g EXCEPT !.px = FALSE]] = @ + 1]
    /\ UNCHANGED <<timeout_ms, pc, call, result>>

\* A slip: a destructor without its unlock (): the guard is gone and the
\* mutex is as it was.
destroy_without_unlock(t, g) ==
    /\ pc[t] = "idle"
    /\ guards[t][g] > 0
    /\ guards' = [guards EXCEPT ![t][g] = @ - 1]
    /\ UNCHANGED <<timeout_ms, write_entered, n_readers, pc, call, result>>

\* ~read_ptr(), ~write_ptr(): unlock(), and the guard is gone.
destroy(t, g) ==
    /\ pc[t] = "idle"
    /\ guards[t][g] > 0
    /\ IF g.px
       THEN MutexReleased(g)
       ELSE UNCHANGED <<write_entered, n_readers>>
    /\ guards' = [guards EXCEPT ![t][g] = @ - 1]
    /\ UNCHANGED <<timeout_ms, pc, call, result>>

\* ------------------------------------------------------------------- time

TimedWaiters == {t \in Threads : pc[t] = "waiting" /\ call[t].attempt # 0}

\* One unit of time passes.  A timed wait ends when its time is up: time
\* does not go on while a waiter has none left.
Tick ==
    /\ TimedWaiters # {}
    /\ \A t \in TimedWaiters : call[t].remaining > 0
    /\ call' = [t \in Threads |->
                   IF t \in TimedWaiters
                   THEN [call[t] EXCEPT !.remaining = @ - 1]
                   ELSE call[t]]
    /\ UNCHANGED <<timeout_ms, write_entered, n_readers, guards, pc, result>>
    /\ UNCHANGED outside_lock

Next ==
    \/ \E t \in Threads, c \in LiveCells : write_ptr_lock(t, c) /\ UNCHANGED outside_lock
    \/ \E t \in Threads, c \in LiveCells : read_ptr_lock(t, c) /\ UNCHANGED outside_lock
    \/ \E t \in Threads, c \in LiveCells : write_ptr_no_lock_failed(t, c) /\ UNCHANGED outside_lock
    \/ \E t \in Threads, c \in LiveCells : read_ptr_no_lock_failed(t, c) /\ UNCHANGED outside_lock
    \/ \E t \in Threads : mutex_enter_exclusive(t)
    \/ \E t \in Threads : write_ptr_lock_got(t) /\ UNCHANGED outside_lock
    \/ \E t \in Threads : write_ptr_lock_retry(t)
    \/ \E t \in Threads : write_ptr_lock_try_again(t)
    \/ \E t \in Threads : write_ptr_lock_unlock_throw(t)
    \/ \E t \in Threads : write_ptr_lock_throw(t)
    \/ \E t \in Threads : read_ptr_lock_got(t) /\ UNCHANGED outside_lock
    \/ \E t \in Threads : read_ptr_lock_retry(t)
    \/ \E t \in Threads : read_ptr_lock_try_again(t)
    \/ \E t \in Threads : read_ptr_lock_unlock_throw(t)
    \/ \E t \in Threads : read_ptr_lock_throw(t)
    \/ \E t \in Threads, g \in Guards : unlock(t, g) /\ UNCHANGED outside_lock
    \/ \E t \in Threads, g \in Guards : destroy(t, g) /\ UNCHANGED outside_lock
    \/ Tick

Spec == Init /\ [][Next]_vars

\* The same two threads and cell in either build, with or without
\* SHARED_STATE_NO_BACKTRACE.
BuildInit ==
    /\ \E v \in TimeoutValues :
          /\ timeout_ms = [c \in {"a"} |-> v]
          /\ types = [c \in Cells |-> Specialized(v)]
    /\ write_entered = [c \in Cells |-> FALSE]
    /\ n_readers = [c \in Cells |-> 0]
    /\ guards = [t \in Threads |-> [g \in Guards |-> 0]]
    /\ pc = [t \in Threads |-> "idle"]
    /\ call = [t \in Threads |-> NoCall]
    /\ result = [t \in Threads |-> NoResult]
    /\ Allocated({"a"})
    /\ ReleaseBuild
    /\ RisingAddresses
    /\ Unread
    /\ Unreported
    /\ NoBarrier
    /\ NoExceptions
    /\ NoLogging
    /\ SHARED_STATE_NO_BACKTRACE \in BOOLEAN

BuildSpec == BuildInit /\ [][Next]_vars

\* Fair scheduling.  A thread inside lock() runs on: a timed attempt that is
\* over is followed by the next statement of lock(), and time passes.  The
\* mutex wakes its waiters at every release, so a waiter that can take the
\* lock again and again does take it.
\* The steps of lock() that take the mutex (at most one of them is open to a
\* thread at a time), and its steps that follow a timed attempt.
mutex_locked(t) ==
    \/ mutex_enter_exclusive(t)
    \/ write_ptr_lock_got(t) /\ UNCHANGED outside_lock
    \/ write_ptr_lock_try_again(t)
    \/ read_ptr_lock_got(t) /\ UNCHANGED outside_lock
    \/ read_ptr_lock_try_again(t)

lock_goes_on(t) ==
    \/ write_ptr_lock_retry(t) \/ read_ptr_lock_retry(t)
    \/ write_ptr_lock_unlock_throw(t) \/ read_ptr_lock_unlock_throw(t)
    \/ write_ptr_lock_throw(t) \/ read_ptr_lock_throw(t)

Fairness ==
    /\ WF_vars(Tick)
    /\ \A t \in Threads : SF_vars(mutex_locked(t)) /\ WF_vars(lock_goes_on(t))

FairSpec == Spec /\ Fairness

\* ------------------------------------- two cells locked in opposite order

\* shared_state_traits_backtrace::test(): f1 runs m(b, a) and f2 runs
\* m(a, b) for the lambda m(p1, p2) = { w1 = p1.write(); barrier.wait();
\* w2 = p2.write(); EXCEPTION_ASSERT(false); } with catch (lock_failed&).
DeadlockThreads == {"t1", "t2"}

p1(t) == IF t = "t1" THEN "b" ELSE "a"
p2(t) == IF t = "t1" THEN "a" ELSE "b"

\* Two cells of a type whose timeout is not negative, and two threads
\* about to run m.
DeadlockInit ==
    /\ Constructed({"a", "b"}, DeadlockThreads)
    /\ \A c \in LiveCells : timeout_ms[c] >= 0
    /\ ReleaseBuild
    /\ RisingAddresses

\* spinning_barrier barrier(2): wait() returns once both threads have come
\* to it; a thread comes to it with w1 in hand.
AtBarrier(t) ==
    pc[t] = "idle" /\ result[t] = Returned("guard", "write", p1(t))

barrier_passed ==
    \A u \in DeadlockThreads : pc[u] # "idle" \/ result[u] # NoResult

\* p2.write() is over: w2 is returned or lock_failed is thrown.
SecondWriteOver(t) == pc[t] = "idle" /\ result[t].c = p2(t)

\* auto w1 = p1.write ();
m_w1(t) ==
    /\ result[t] = NoResult
    /\ write_ptr_lock(t, p1(t))

\* barrier.wait (); auto w2 = p2.write ();
m_w2(t) ==
    /\ AtBarrier(t)
    /\ barrier_passed
    /\ write_ptr_lock(t, p2(t))

\* The end of the try block, by lock_failed or by the ExceptionAssert of
\* "never reached": w2 (if there is one) and then w1 are destroyed.
m_unwind(t) ==
    /\ SecondWriteOver(t)
    /\ \E g \in Guards :
          /\ g.c = p1(t) => HeldW(t, p2(t)) = 0
          /\ destroy(t, g)

\* m has ended in thread t.
m_done(t) == SecondWriteOver(t) /\ NumGuards(t) = 0

DeadlockNext ==
    \/ \E t \in DeadlockThreads : m_w1(t) /\ UNCHANGED outside_lock
    \/ \E t \in DeadlockThreads : m_w2(t) /\ UNCHANGED outside_lock
    \/ \E t \in DeadlockThreads : mutex_enter_exclusive(t)
    \/ \E t \in DeadlockThreads : write_ptr_lock_got(t) /\ UNCHANGED outside_lock
    \/ \E t \in DeadlockThreads : write_ptr_lock_retry(t)
    \/ \E t \in DeadlockThreads : write_ptr_lock_try_again(t)
    \/ \E t \in DeadlockThreads : write_ptr_lock_unlock_throw(t)
    \/ \E t \in DeadlockThreads : write_ptr_lock_throw(t)
    \/ \E t \in DeadlockThreads : m_unwind(t) /\ UNCHANGED outside_lock
    \/ Tick

\* The threads of std::async run on, whatever the other thread does.
DeadlockFairness ==
    /\ WF_vars(Tick)
    /\ \A t \in DeadlockThreads :
          /\ SF_vars(mutex_locked(t))
          /\ WF_vars(lock_goes_on(t))
          /\ WF_vars((m_w1(t) \/ m_w2(t) \/ m_unwind(t)) /\ UNCHANGED outside_lock)

DeadlockSpec == DeadlockInit /\ [][DeadlockNext]_vars /\ DeadlockFairness

\* --------------------------------------- guards with an execution watcher

\* The values verify_execution_time_ms() of a traits class may return:
\* negative, zero and positive.
VerifyValues == {-1, 0, 1}

\* A slip: "0 <= d->verify_execution_time_ms" for "0 <".
watcher_wanted_from_zero(c) == 0 <= verify_execution_time_ms[c]

\* lock() and the no_lock_failed constructors, after they got the lock:
\* if (0<d->verify_execution_time_ms)
watcher_wanted(c) == 0 < verify_execution_time_ms[c]

\* ... pc = VerifyExecutionTime::start (...): the guard that thread t has
\* got in this step, with px # 0, gets a running watcher.
VerifyExecutionTime_start(t) ==
    /\ watched' = [watched EXCEPT ![t] =
          [g \in Guards |->
              IF g.px /\ guards'[t][g] > guards[t][g] /\ watcher_wanted(g.c)
              THEN watched[t][g] + 1
              ELSE watched[t][g]]]
    /\ UNCHANGED <<verify_execution_time_ms, resetting, owners>>

\* A slip: unlock() that enters pc.reset () with the lock still held.
l_unlock_keeps_lock(t, g, dtor) ==
    /\ pc[t] = "idle"
    /\ g.px
    /\ watched[t][g] > 0
    /\ guards' = [guards EXCEPT ![t][g] = @ - 1]
    /\ watched' = [watched EXCEPT ![t][g] = @ - 1]
    /\ resetting' = [resetting EXCEPT ![t] =
                        [c |-> g.c, mode |-> g.mode, px |-> TRUE, dtor |-> dtor]]
    /\ pc' = [pc EXCEPT ![t] = "resetting"]
    /\ UNCHANGED <<timeout_ms, write_entered, n_readers, call, result,
                   verify_execution_time_ms, owners>>

\* unlock() of a guard with px # 0 and a running watcher, first statement:
\* l.unlock () or l.unlock_shared ().  dtor says that the destructor called
\* unlock().  The guard is inside unlock() until pc.reset () is over.
l_unlock(t, g, dtor) ==
    /\ pc[t] = "idle"
    /\ g.px
    /\ watched[t][g] > 0
    /\ MutexReleased(g)
    /\ guards' = [guards EXCEPT ![t][g] = @ - 1]
    /\ watched' = [watched EXCEPT ![t][g] = @ - 1]
    /\ resetting' = [resetting EXCEPT ![t] =
                        [c |-> g.c, mode |-> g.mode, px |-> TRUE, dtor |-> dtor]]
    /\ pc' = [pc EXCEPT ![t] = "resetting"]
    /\ UNCHANGED <<timeout_ms, call, result, verify_execution_time_ms, owners>>

\* unlock(), the rest: pc.reset () stops the watcher (~VerifyExecutionTime
\* may call the report function), then px = 0.  After the destructor the
\* guard is gone.
pc_reset(t) ==
    /\ pc[t] = "resetting"
    /\ guards' = [guards EXCEPT
           ![t][[c |-> resetting[t].c, mode |-> resetting[t].mode,
                 px |-> FALSE]] = IF resetting[t].dtor THEN @ ELSE @ + 1]
    /\ resetting' = [resetting EXCEPT ![t] = NoGuard]
    /\ pc' = [pc EXCEPT ![t] = "idle"]
    /\ UNCHANGED <<timeout_ms, write_entered, n_readers, call, result,
                   verify_execution_time_ms, watched, owners>>

\* A guard object of kind g of thread t that has no running watcher.
Unwatched_guard(t, g) == watched[t][g] < guards[t][g]

\* One cell of a type with any verify_execution_time_ms, whose timeout is
\* negative or the longest one.
WatchInit ==
    /\ Constructed({"a"}, Threads)
    /\ \A c \in LiveCells : timeout_ms[c] \in {-1, MaxTimeout}
    /\ verify_execution_time_ms \in {[c \in LiveCells |-> v] : v \in VerifyValues}
    /\ Unwatched
    /\ RisingAddresses

WatchNext ==
    \/ \E t \in Threads, c \in LiveCells :
          write_ptr_lock(t, c) /\ VerifyExecutionTime_start(t) /\ UNCHANGED apart
    \/ \E t \in Threads, c \in LiveCells :
          read_ptr_lock(t, c) /\ VerifyExecutionTime_start(t) /\ UNCHANGED apart
    \/ \E t \in Threads, c \in LiveCells :
          write_ptr_no_lock_failed(t, c) /\ VerifyExecutionTime_start(t) /\ UNCHANGED apart
    \/ \E t \in Threads, c \in LiveCells :
          read_ptr_no_lock_failed(t, c) /\ VerifyExecutionTime_start(t) /\ UNCHANGED apart
    \/ \E t \in Threads : mutex_enter_exclusive(t)
    \/ \E t \in Threads : write_ptr_lock_got(t) /\ VerifyExecutionTime_start(t) /\ UNCHANGED apart
    \/ \E t \in Threads : write_ptr_lock_retry(t)
    \/ \E t \in Threads : write_ptr_lock_try_again(t)
    \/ \E t \in Threads : write_ptr_lock_unlock_throw(t)
    \/ \E t \in Threads : write_ptr_lock_throw(t)
    \/ \E t \in Threads : read_ptr_lock_got(t) /\ VerifyExecutionTime_start(t) /\ UNCHANGED apart
    \/ \E t \in Threads : read_ptr_lock_retry(t)
    \/ \E t \in Threads : read_ptr_lock_try_again(t)
    \/ \E t \in Threads : read_ptr_lock_unlock_throw(t)
    \/ \E t \in Threads : read_ptr_lock_throw(t)
    \/ \E t \in Threads, g \in Guards :
          Unwatched_guard(t, g) /\ unlock(t, g) /\ UNCHANGED outside_lock
    \/ \E t \in Threads, g \in Guards :
          Unwatched_guard(t, g) /\ destroy(t, g) /\ UNCHANGED outside_lock
    \/ \E t \in Threads, g \in Guards, dtor \in BOOLEAN : l_unlock(t, g, dtor)
          /\ UNCHANGED apart
    \/ \E t \in Threads : pc_reset(t) /\ UNCHANGED apart
    \/ Tick

WatchSpec == WatchInit /\ [][WatchNext]_vars

\* ------------------------------------------------ moving a guard
\* A slip: a move constructor without its "b.px = 0".
guard_moved_from_keeps_px(g) == g

\* read_ptr (read_ptr&& b), write_ptr (write_ptr&& b): what the source b is
\* afterwards: p and d are swapped away and "b.px = 0".
guard_moved_from(g) == [g EXCEPT !.px = FALSE]

\* The move constructor, with a guard of kind g of thread t as the source b:
\* the new guard takes l, px, p and d of b, so it is of kind g, and b stays
\* as a guard with px = 0.  pc is not in the initializer list: the new guard
\* has none, and b keeps its own, running or not (with_pc).
guard_move(t, g, with_pc) ==
    /\ pc[t] = "idle"
    /\ guards[t][g] > 0
    /\ NumGuards(t) < MaxGuards
    /\ IF with_pc THEN watched[t][g] > 0 ELSE Unwatched_guard(t, g)
    /\ guards' = [guards EXCEPT ![t][guard_moved_from(g)] = @ + 1]
    /\ watched' = IF with_pc
                  THEN [watched EXCEPT ![t][g] = @ - 1,
                                       ![t][guard_moved_from(g)] = @ + 1]
                  ELSE watched
    /\ UNCHANGED <<timeout_ms, write_entered, n_readers, pc, call, result>>
    /\ UNCHANGED <<verify_execution_time_ms, resetting, owners, apart>>

\* The destructor of a guard with px = 0 whose pc is running, which a guard
\* that was moved from is: unlock() does nothing, then the member pc is
\* destroyed and with it the watcher.
guard_moved_from_dtor(t, g) ==
    /\ pc[t] = "idle"
    /\ ~g.px
    /\ watched[t][g] > 0
    /\ guards' = [guards EXCEPT ![t][g] = @ - 1]
    /\ watched' = [watched EXCEPT ![t][g] = @ - 1]
    /\ UNCHANGED <<timeout_ms, write_entered, n_readers, pc, call, result>>
    /\ UNCHANGED <<verify_execution_time_ms, resetting, owners, apart>>

\* One thread and one cell whose type asks for a watcher or not.  The thread
\* waits only for a lock that it holds itself, which no wait obtains; the
\* timeout is negative or zero, so no attempt waits for time to pass.
MoveInit ==
    /\ Constructed({"a"}, {"t1"})
    /\ \A c \in LiveCells : timeout_ms[c] \in {-1, 0}
    /\ verify_execution_time_ms \in {[c \in LiveCells |-> v] : v \in VerifyValues}
    /\ Unwatched
    /\ RisingAddresses

MoveNext ==
    \/ \E t \in Threads, c \in LiveCells :
          write_ptr_lock(t, c) /\ VerifyExecutionTime_start(t) /\ UNCHANGED apart
    \/ \E t \in Threads, c \in LiveCells :
          read_ptr_lock(t, c) /\ VerifyExecutionTime_start(t) /\ UNCHANGED apart
    \/ \E t \in Threads, c \in LiveCells :
          write_ptr_no_lock_failed(t, c) /\ VerifyExecutionTime_start(t) /\ UNCHANGED apart
    \/ \E t \in Threads, c \in LiveCells :
          read_ptr_no_lock_failed(t, c) /\ VerifyExecutionTime_start(t) /\ UNCHANGED apart
    \/ \E t \in Threads : mutex_enter_exclusive(t)
    \/ \E t \in Threads : write_ptr_lock_retry(t)
    \/ \E t \in Threads : write_ptr_lock_throw(t)
    \/ \E t \in Threads : read_ptr_lock_retry(t)
    \/ \E t \in Threads : read_ptr_lock_throw(t)
    \/ \E t \in Threads, g \in Guards :
          Unwatched_guard(t, g) /\ unlock(t, g) /\ UNCHANGED outside_lock
    \/ \E t \in Threads, g \in Guards :
          Unwatched_guard(t, g) /\ destroy(t, g) /\ UNCHANGED outside_lock
    \/ \E t \in Threads, g \in Guards, dtor \in BOOLEAN : l_unlock(t, g, dtor)
          /\ UNCHANGED apart
    \/ \E t \in Threads : pc_reset(t) /\ UNCHANGED apart
    \/ \E t \in Threads, g \in Guards, with_pc \in BOOLEAN :
          guard_move(t, g, with_pc)
    \/ \E t \in Threads, g \in Guards : guard_moved_from_dtor(t, g)

MoveSpec == MoveInit /\ [][MoveNext]_vars

\* ------------------------------------------- who owns value and details
\* A shared_state holds std::shared_ptr<volatile T> p and
\* std::shared_ptr<details> d; the guards hold copies of both, weak_ptr holds
\* a std::weak_ptr to each.  std::shared_ptr deletes its object when the last
\* owner lets go.

Members == {"p", "d"}

Heap == [use |-> use_count, del |-> deleted]

\* A copy of a shared_ptr to member m of cell c.
Copied(h, c, m) ==
    IF c = "none" THEN h ELSE [h EXCEPT !.use[c][m] = @ + 1]

\* The destructor or reset () of a shared_ptr to member m of cell c.
Released(h, c, m) ==
    IF c = "none" THEN h
    ELSE [h EXCEPT !.use[c][m] = @ - 1,
                   !.del[c][m] = IF h.use[c][m] = 1 THEN TRUE ELSE @]

SetHeap(h) == use_count' = h.use /\ deleted' = h.del

\* std::weak_ptr::lock () on member m of cell c: the cell, with one more
\* owner, as long as there is an owner; else empty.
weak_lock(c, m) ==
    IF c # "none" /\ use_count[c][m] > 0 THEN c ELSE "none"

FreePtr(s) == ptrs[s] = NoPtr

\* A shared_state that no reset () or destructor is working on.
Idle(s) == ptrs[s].op = "idle"

\* A slip: a copy that takes the pointers and does not become an owner.
shared_state_copy_unowned(s, s2, is_const) ==
    /\ s # s2
    /\ Idle(s)
    /\ FreePtr(s2)
    /\ ptrs[s].is_const => is_const
    /\ ptrs' = [ptrs EXCEPT ![s2] = [p |-> ptrs[s].p, d |-> ptrs[s].d,
                                     is_const |-> is_const, op |-> "idle"]]
    /\ UNCHANGED <<weak, use_count, deleted, unchanging>>

\* A slip: a converting constructor that copies p and leaves d empty.
shared_state_copy_without_d(s, s2, is_const) ==
    /\ s # s2
    /\ Idle(s)
    /\ FreePtr(s2)
    /\ ptrs[s].is_const => is_const
    /\ ptrs' = [ptrs EXCEPT ![s2] = [p |-> ptrs[s].p, d |-> "none",
                                     is_const |-> is_const, op |-> "idle"]]
    /\ SetHeap(Copied(Heap, ptrs[s].p, "p"))
    /\ UNCHANGED <<weak, unchanging>>

\* shared_state(const shared_state<Y>& a) : p( a.p ), d( a.d ).  Y* has to
\* convert to T*: a const cell from a mutable one, not the other way round.
shared_state_copy(s, s2, is_const) ==
    /\ s # s2
    /\ Idle(s)
    /\ FreePtr(s2)
    /\ ptrs[s].is_const => is_const
    /\ ptrs' = [ptrs EXCEPT ![s2] = [p |-> ptrs[s].p, d |-> ptrs[s].d,
                                     is_const |-> is_const, op |-> "idle"]]
    /\ SetHeap(Copied(Copied(Heap, ptrs[s].p, "p"), ptrs[s].d, "d"))
    /\ UNCHANGED <<weak, unchanging>>

\* reset () with yp = 0: p.reset (), and then d.reset ().
shared_state_reset_p(s) ==
    /\ Idle(s)
    /\ ~FreePtr(s)
    /\ ptrs' = [ptrs EXCEPT ![s].p = "none", ![s].op = "reset"]
    /\ SetHeap(Released(Heap, ptrs[s].p, "p"))
    /\ UNCHANGED <<weak, unchanging>>

shared_state_reset_d(s) ==
    /\ ptrs[s].op = "reset"
    /\ ptrs' = [ptrs EXCEPT ![s].d = "none", ![s].op = "idle"]
    /\ SetHeap(Released(Heap, ptrs[s].d, "d"))
    /\ UNCHANGED <<weak, unchanging>>

\* ~shared_state(): the members go in the reverse order of their
\* declaration, d first and then p.
shared_state_dtor_d(s) ==
    /\ Idle(s)
    /\ ~FreePtr(s)
    /\ ptrs' = [ptrs EXCEPT ![s].d = "none", ![s].op = "dtor"]
    /\ SetHeap(Released(Heap, ptrs[s].d, "d"))
    /\ UNCHANGED <<weak, unchanging>>

shared_state_dtor_p(s) ==
    /\ ptrs[s].op = "dtor"
    /\ ptrs' = [ptrs EXCEPT ![s] = NoPtr]
    /\ SetHeap(Released(Heap, ptrs[s].p, "p"))
    /\ UNCHANGED <<weak, unchanging>>

\* weak_ptr(const shared_state& t) : data(t.d), p(t.p).
weak_ptr_ctor(s) ==
    /\ weak.step = "idle" /\ weak.data = "none" /\ weak.p = "none"
    /\ Idle(s)
    /\ weak' = [NoWeak EXCEPT !.data = ptrs[s].d, !.p = ptrs[s].p]
    /\ UNCHANGED <<ptrs, use_count, deleted, unchanging>>

\* ~weak_ptr().
weak_ptr_dtor ==
    /\ weak.step = "idle"
    /\ weak # NoWeak
    /\ weak' = NoWeak
    /\ UNCHANGED <<ptrs, use_count, deleted, unchanging>>

\* weak_ptr::lock(), first statement: datap = data.lock ().  The cell that
\* lock() returns is constructed in s2.
weak_ptr_lock_data(s2) ==
    /\ weak.step = "idle"
    /\ FreePtr(s2)
    /\ ptrs' = [ptrs EXCEPT ![s2].op = "returned"]
    /\ weak' = [weak EXCEPT !.step = "data_locked",
                            !.datap = weak_lock(weak.data, "d"),
                            !.into = s2,
                            !.returned = "none"]
    /\ SetHeap(Copied(Heap, weak_lock(weak.data, "d"), "d"))
    /\ UNCHANGED unchanging

\* A slip: a lock() that returns whatever it got, also one half alone.
weak_ptr_lock_p_half ==
    /\ weak.step = "data_locked"
    /\ LET pp == weak_lock(weak.p, "p")
       IN  /\ ptrs' = [ptrs EXCEPT ![weak.into] =
                          [NoPtr EXCEPT !.p = pp, !.d = weak.datap]]
           /\ SetHeap(Copied(Heap, pp, "p"))
           /\ weak' = [weak EXCEPT !.step = "idle", !.datap = "none",
                          !.into = "none",
                          !.returned = IF pp # "none" \/ weak.datap # "none"
                                       THEN "cell" ELSE "empty"]
    /\ UNCHANGED unchanging

\* weak_ptr::lock(), the rest: pp = p.lock (); if (pp && datap) the cell
\* (pp, datap) is returned, else an empty cell; the locals are released.
weak_ptr_lock_p ==
    /\ weak.step = "data_locked"
    /\ LET pp == weak_lock(weak.p, "p")
       IN  IF pp # "none" /\ weak.datap # "none"
           THEN /\ ptrs' = [ptrs EXCEPT ![weak.into] =
                               [NoPtr EXCEPT !.p = pp, !.d = weak.datap]]
                /\ SetHeap(Copied(Heap, pp, "p"))
                /\ weak' = [weak EXCEPT !.step = "idle", !.datap = "none",
                               !.into = "none", !.returned = "cell"]
           ELSE /\ ptrs' = [ptrs EXCEPT ![weak.into] = NoPtr]
                /\ SetHeap(Released(Heap, weak.datap, "d"))
                /\ weak' = [weak EXCEPT !.step = "idle", !.datap = "none",
                               !.into = "none", !.returned = "empty"]
    /\ UNCHANGED unchanging

\* A cell through which a guard can be asked for: p and d are there.
Usable(s) == Idle(s) /\ ptrs[s].p # "none" /\ ptrs[s].p = ptrs[s].d

\* A slip: a guard that holds p and the reference l, and no d.
guard_members_without_d(h, c) == Copied(h, c, "p")

\* read_ptr, write_ptr: the initialisers p (vp.p), d (vp.d).
guard_members(h, c) == Copied(Copied(h, c, "p"), c, "d")

\* ~read_ptr(), ~write_ptr(), after unlock(): the members d and p go.
guard_members_released(h, c) == Released(Released(h, c, "d"), c, "p")

\* The guard made in this step has taken its copies of p and d of s.
guard_made(s) ==
    /\ SetHeap(guard_members(Heap, ptrs[s].d))
    /\ UNCHANGED <<ptrs, weak, unchanging, watcher, apart>>

\* read(), write() on a cell whose lock is free, try_read(), try_write().
ptr_read(t, s) ==
    /\ Usable(s)
    /\ try_lock_shared_ok(ptrs[s].d)
    /\ read_ptr_lock(t, ptrs[s].d)
    /\ guard_made(s)

ptr_write(t, s) ==
    /\ Usable(s)
    /\ ~ptrs[s].is_const
    /\ try_lock_ok(ptrs[s].d)
    /\ write_ptr_lock(t, ptrs[s].d)
    /\ guard_made(s)

ptr_try_read(t, s) ==
    /\ Usable(s)
    /\ read_ptr_no_lock_failed(t, ptrs[s].d)
    /\ guard_made(s)

ptr_try_write(t, s) ==
    /\ Usable(s)
    /\ ~ptrs[s].is_const
    /\ write_ptr_no_lock_failed(t, ptrs[s].d)
    /\ guard_made(s)

\* unlock() of a guard: the guard keeps p and d.
guard_unlock(t, g) ==
    /\ unlock(t, g)
    /\ UNCHANGED outside_lock

\* The destructor of a guard.
guard_destroy(t, g) ==
    /\ destroy(t, g)
    /\ SetHeap(guard_members_released(Heap, g.c))
    /\ UNCHANGED <<ptrs, weak, unchanging, watcher, apart>>

lock_state == <<timeout_ms, write_entered, n_readers, guards, pc, call, result>>

\* ------------------------------------------------ the traits of a type
\* What a type C can declare: a nested class C::shared_state_traits, with
\* or without a member timeout_ms, and a specialization
\* shared_state_traits<C>.

NotDeclared == [kind |-> "none", timeout_ms |-> 0]

NestedTraits ==
    {NotDeclared, [kind |-> "no_timeout_ms", timeout_ms |-> 0]}
    \cup {[kind |-> "nested", timeout_ms |-> v] : v \in TimeoutValues}

Specializations ==
    {NotDeclared}
    \cup {[kind |-> "specialization", timeout_ms |-> v] : v \in TimeoutValues}

TypeDeclarations == [nested : NestedTraits, specialization : Specializations]

\* struct shared_state_traits_default: int timeout_ms() { return 100; }
default_timeout_ms == 100

shared_state_traits_default ==
    [kind |-> "default", timeout_ms |-> default_timeout_ms]

\* template<class C> struct shared_state_traits: the specialization for C
\* when there is one, else the primary template, which derives from
\* shared_state_traits_default.
shared_state_traits(C) ==
    IF C.specialization.kind = "specialization"
    THEN C.specialization
    ELSE shared_state_traits_default

\* has_shared_state_traits<C>::value: test(decltype(
\* &C::shared_state_traits::timeout_ms)) is viable.
has_shared_state_traits(C) == C.nested.kind = "nested"

\* A slip: the two specializations of the helper exchanged.
shared_state_traits_helper_exchanged(C) ==
    IF has_shared_state_traits(C) THEN shared_state_traits(C) ELSE C.nested

\* shared_state_traits_helper<C>::type.
shared_state_traits_helper(C) ==
    IF has_shared_state_traits(C) THEN C.nested ELSE shared_state_traits(C)

\* shared_state ( Y* p ): reset(p) makes p own the value and d own new
\* details, whose timeout_ms is read from an object of the traits of Y.  The
\* traits of the tests return -1 from verify_execution_time_ms().
shared_state_new(s, c) ==
    /\ c \notin LiveCells
    /\ FreePtr(s)
    /\ timeout_ms' = [x \in LiveCells \cup {c} |->
                         IF x = c
                         THEN shared_state_traits_helper(types[c]).timeout_ms
                         ELSE timeout_ms[x]]
    /\ verify_execution_time_ms' =
           [x \in LiveCells \cup {c} |->
               IF x = c THEN release_verify_execution_time_ms
                        ELSE verify_execution_time_ms[x]]
    /\ ptrs' = [ptrs EXCEPT ![s] = [NoPtr EXCEPT !.p = c, !.d = c]]
    /\ use_count' = [use_count EXCEPT ![c] = [p |-> 1, d |-> 1]]
    /\ UNCHANGED <<write_entered, n_readers, guards, pc, call, result,
                   watched, resetting, weak, deleted, unchanging,
                   beside_construction>>

\* No cell yet; the types of the cells to come declare any traits.
TraitsInit ==
    /\ timeout_ms = [c \in {} |-> 0]
    /\ types \in [Cells -> TypeDeclarations]
    /\ Fresh({})
    /\ Allocated({})
    /\ ReleaseBuild
    /\ RisingAddresses

TraitsNext ==
    \E s \in Ptrs, c \in Cells :
        shared_state_new(s, c) /\ UNCHANGED construction

TraitsSpec == TraitsInit /\ [][TraitsNext]_vars

\* p.get (): the address of the value, 0 for an empty cell.
get(s) == IF ptrs[s].p = "none" THEN 0 ELSE address[ptrs[s].p]

\* bool operator== (const shared_state& b): p.get () == b.p.get ().
operator_eq(s, s2) == get(s) = get(s2)

\* A slip: operator< written with <=.
operator_less_or_equal(s, s2) == get(s) <= get(s2)

\* bool operator < (const shared_state& b): this->p < b.p, which for
\* std::shared_ptr compares the stored pointers.
operator_less(s, s2) == get(s) < get(s2)

\* One cell of a type A, used by one thread: copies of the cell, a weak_ptr
\* and guards come and go.
OwnInit ==
    /\ Constructed({"a"}, {"t1"})
    /\ ReleaseBuild
    /\ RisingAddresses

OwnNext ==
    \/ \E s, s2 \in Ptrs :
          shared_state_copy(s, s2, FALSE) /\ UNCHANGED <<lock_state, watcher, apart>>
    \/ \E s \in Ptrs : shared_state_reset_p(s) /\ UNCHANGED <<lock_state, watcher, apart>>
    \/ \E s \in Ptrs : shared_state_reset_d(s) /\ UNCHANGED <<lock_state, watcher, apart>>
    \/ \E s \in Ptrs : shared_state_dtor_d(s) /\ UNCHANGED <<lock_state, watcher, apart>>
    \/ \E s \in Ptrs : shared_state_dtor_p(s) /\ UNCHANGED <<lock_state, watcher, apart>>
    \/ \E s \in Ptrs : weak_ptr_ctor(s) /\ UNCHANGED <<lock_state, watcher, apart>>
    \/ weak_ptr_dtor /\ UNCHANGED <<lock_state, watcher, apart>>
    \/ \E s2 \in Ptrs : weak_ptr_lock_data(s2) /\ UNCHANGED <<lock_state, watcher, apart>>
    \/ weak_ptr_lock_p /\ UNCHANGED <<lock_state, watcher, apart>>
    \/ \E s \in Ptrs : ptr_read("t1", s)
    \/ \E s \in Ptrs : ptr_write("t1", s)
    \/ \E s \in Ptrs : ptr_try_read("t1", s)
    \/ \E s \in Ptrs : ptr_try_write("t1", s)
    \/ \E g \in Guards : guard_unlock("t1", g)
    \/ \E g \in Guards : guard_destroy("t1", g)

OwnSpec == OwnInit /\ [][OwnNext]_vars

\* Two separately constructed cells, which the allocator has put anywhere,
\* and their copies.
CompareInit ==
    /\ Constructed({"a", "b"}, {})
    /\ ReleaseBuild
    /\ address \in {f \in [Cells -> 1..2] : f["a"] # f["b"]}

CompareNext ==
    \/ \E s, s2 \in Ptrs :
          shared_state_copy(s, s2, FALSE) /\ UNCHANGED <<lock_state, watcher, apart>>
    \/ \E s \in Ptrs : shared_state_reset_p(s) /\ UNCHANGED <<lock_state, watcher, apart>>
    \/ \E s \in Ptrs : shared_state_reset_d(s) /\ UNCHANGED <<lock_state, watcher, apart>>
    \/ \E s \in Ptrs : shared_state_dtor_d(s) /\ UNCHANGED <<lock_state, watcher, apart>>
    \/ \E s \in Ptrs : shared_state_dtor_p(s) /\ UNCHANGED <<lock_state, watcher, apart>>

CompareSpec == CompareInit /\ [][CompareNext]_vars

\* A::Ptr a(new A); A::ConstPtr consta(a): a mutable cell, const cells made
\* from it, and two threads that ask for guards through them.
ConstInit ==
    /\ Constructed({"a"}, Threads)
    /\ ReleaseBuild
    /\ RisingAddresses

ConstNext ==
    \/ \E s2 \in Ptrs :
          shared_state_copy("ptr1", s2, TRUE) /\ UNCHANGED <<lock_state, watcher, apart>>
    \/ \E t \in Threads, s \in Ptrs : ptr_read(t, s)
    \/ \E t \in Threads, s \in Ptrs : ptr_write(t, s)
    \/ \E t \in Threads, s \in Ptrs : ptr_try_read(t, s)
    \/ \E t \in Threads, s \in Ptrs : ptr_try_write(t, s)
    \/ \E t \in Threads, g \in Guards : guard_destroy(t, g)

ConstSpec == ConstInit /\ [][ConstNext]_vars

\* ---------------------------------------------------- the guarded value
\* w->a (v), *w = ...: a thread changes the value through a write guard it
\* holds (operator-> and operator* of write_ptr return px).
write_value(t, c, v) ==
    /\ pc[t] = "idle"
    /\ HeldW(t, c) > 0
    /\ v # value[c]
    /\ value' = [value EXCEPT ![c] = v]
    /\ UNCHANGED <<released, seen, lock_state, watcher, owners, beside_values>>

\* r->a (): a thread reads the value through a read guard it holds
\* (operator-> of read_ptr returns px).
read_value(t, c) ==
    /\ pc[t] = "idle"
    /\ HeldR(t, c) > 0
    /\ seen' = [seen EXCEPT ![t] = [read |-> TRUE, v |-> value[c]]]
    /\ UNCHANGED <<value, released, lock_state, watcher, owners, beside_values>>

\* What unlock() or the destructor of guard g of thread t means for the
\* value: a write guard leaves the value behind for the guards to come, and
\* what was read through a read guard is forgotten with the last of them.
value_released(t, g) ==
    /\ released' = [released EXCEPT ![g.c] =
                        IF g.px /\ g.mode = "write" THEN value[g.c] ELSE @]
    /\ seen' = [seen EXCEPT ![t] =
                        IF guards'[t][[c |-> g.c, mode |-> "read", px |-> TRUE]] = 0
                        THEN NotSeen ELSE @]
    /\ UNCHANGED <<value, watcher, owners, beside_values>>

\* Two threads that share one cell whose calls wait for ever or give up at
\* once (no attempt waits for time to pass), and the value the cell guards.
ValueInit ==
    /\ Constructed({"a"}, Threads)
    /\ \A c \in LiveCells : timeout_ms[c] \in {-1, 0}
    /\ ReleaseBuild
    /\ RisingAddresses

ValueNext ==
    \/ \E t \in Threads, c \in LiveCells : write_ptr_lock(t, c) /\ UNCHANGED outside_lock
    \/ \E t \in Threads, c \in LiveCells : read_ptr_lock(t, c) /\ UNCHANGED outside_lock
    \/ \E t \in Threads, c \in LiveCells : write_ptr_no_lock_failed(t, c) /\ UNCHANGED outside_lock
    \/ \E t \in Threads, c \in LiveCells : read_ptr_no_lock_failed(t, c) /\ UNCHANGED outside_lock
    \/ \E t \in Threads : mutex_enter_exclusive(t)
    \/ \E t \in Threads : write_ptr_lock_got(t) /\ UNCHANGED outside_lock
    \/ \E t \in Threads : write_ptr_lock_retry(t)
    \/ \E t \in Threads : write_ptr_lock_try_again(t)
    \/ \E t \in Threads : write_ptr_lock_unlock_throw(t)
    \/ \E t \in Threads : write_ptr_lock_throw(t)
    \/ \E t \in Threads : read_ptr_lock_got(t) /\ UNCHANGED outside_lock
    \/ \E t \in Threads : read_ptr_lock_retry(t)
    \/ \E t \in Threads : read_ptr_lock_try_again(t)
    \/ \E t \in Threads : read_ptr_lock_unlock_throw(t)
    \/ \E t \in Threads : read_ptr_lock_throw(t)
    \/ \E t \in Threads, g \in Guards : unlock(t, g) /\ value_released(t, g)
    \/ \E t \in Threads, g \in Guards : destroy(t, g) /\ value_released(t, g)
    \/ \E t \in Threads, c \in LiveCells, v \in Values : write_value(t, c, v)
    \/ \E t \in Threads, c \in LiveCells : read_value(t, c)

ValueSpec == ValueInit /\ [][ValueNext]_vars

\* ------------------------------------------ VerifyExecutionTime, reports
\* Times are in milliseconds.  A timer runs for at most MaxElapsed of them,
\* and a thread makes at most MaxReports reports.
MaxElapsed == 2
MaxReports == 2

\* The expected times a scope is started with.
ExpectedTimes == (-1)..1

\* The functions a program installs with set_default_report; "0" is the
\* empty std::function, and "default_report" the lambda of start() that
\* calls VerifyExecutionTime::default_report with a backtrace.
ReportFuncs == {"f1", "f2"}

\* VerifyExecutionTime::set_default_report (report_func).
set_default_report(report_func) ==
    /\ default_report_func_ # report_func
    /\ default_report_func_' = report_func
    /\ UNCHANGED <<vet, held_for, reports, unwinding, called>>
    /\ UNCHANGED <<lock_state, watcher, owners, beside_reporting>>

\* VerifyExecutionTime::start, the function it hands to the constructor:
\* report_func, or default_report_func_ when that is empty, or the lambda
\* when this is empty as well.
start_report_func(report_func) ==
    IF report_func # "0" THEN report_func
    ELSE IF default_report_func_ # "0" THEN default_report_func_
    ELSE "default_report"

\* VerifyExecutionTime::start (expected_time, report_func): a new object
\* whose timer_ starts at 0.  The traits of every type here return 0 from
\* report_func().
VerifyExecutionTime_ctor(owner, expected_time) ==
    [running |-> TRUE, owner |-> owner, expected_time_ |-> expected_time,
     elapsed |-> 0, report_func_ |-> start_report_func("0")]

\* report_func_ (expected_time_, execution_time) of the object of thread t
\* is called.
report_func_call(t) ==
    [func |-> vet[t].report_func_, default_then |-> default_report_func_]

\* A slip: the destructor looks up the function to call, as start() does.
VerifyExecutionTime_dtor_looks_up(t) ==
    /\ vet[t].running
    /\ reports' = [reports EXCEPT ![t] =
           IF ~unwinding[t] /\ vet[t].expected_time_ < vet[t].elapsed
           THEN @ + 1 ELSE @]
    /\ called' = [called EXCEPT ![t] =
           IF ~unwinding[t] /\ vet[t].expected_time_ < vet[t].elapsed
           THEN [func |-> start_report_func("0"),
                 default_then |-> default_report_func_]
           ELSE @]
    /\ vet' = [vet EXCEPT ![t].running = FALSE]
    /\ UNCHANGED <<unwinding, default_report_func_>>

\* A slip: ~VerifyExecutionTime() without "if (std::uncaught_exception())
\* return;".
VerifyExecutionTime_dtor_while_unwinding(t) ==
    /\ vet[t].running
    /\ reports' = [reports EXCEPT ![t] =
           IF vet[t].expected_time_ < vet[t].elapsed THEN @ + 1 ELSE @]
    /\ called' = [called EXCEPT ![t] =
           IF vet[t].expected_time_ < vet[t].elapsed THEN report_func_call(t) ELSE @]
    /\ vet' = [vet EXCEPT ![t].running = FALSE]
    /\ UNCHANGED <<unwinding, default_report_func_>>

\* A slip: "expected_time_ <= execution_time" for "<".
VerifyExecutionTime_dtor_from_expected(t) ==
    /\ vet[t].running
    /\ reports' = [reports EXCEPT ![t] =
           IF ~unwinding[t] /\ vet[t].expected_time_ <= vet[t].elapsed
           THEN @ + 1 ELSE @]
    /\ called' = [called EXCEPT ![t] =
           IF ~unwinding[t] /\ vet[t].expected_time_ <= vet[t].elapsed
           THEN report_func_call(t) ELSE @]
    /\ vet' = [vet EXCEPT ![t].running = FALSE]
    /\ UNCHANGED <<unwinding, default_report_func_>>

\* ~VerifyExecutionTime(): nothing when an exception is unwinding;
\* report_func_ (expected_time_, execution_time) when
\* expected_time_ < timer_.elapsed ().  What the object was stays on record
\* until the thread starts the next one.
VerifyExecutionTime_dtor(t) ==
    /\ vet[t].running
    /\ reports' = [reports EXCEPT ![t] =
           IF ~unwinding[t] /\ vet[t].expected_time_ < vet[t].elapsed
           THEN @ + 1 ELSE @]
    /\ called' = [called EXCEPT ![t] =
           IF ~unwinding[t] /\ vet[t].expected_time_ < vet[t].elapsed
           THEN report_func_call(t) ELSE @]
    /\ vet' = [vet EXCEPT ![t].running = FALSE]
    /\ UNCHANGED <<unwinding, default_report_func_>>

\* A thread may start something whose time is taken: it is not unwinding
\* and has reports left to make.
MayStart(t) == ~unwinding[t] /\ reports[t] < MaxReports

\* { VerifyExecutionTime::ptr x = VerifyExecutionTime::start (expected, f);
\* a scope of its own, as in VerifyExecutionTime::test.  A destructor that
\* runs while an exception unwinds may open such a scope as well.
scope_start(t, expected) ==
    /\ pc[t] = "idle"
    /\ reports[t] < MaxReports
    /\ ~vet[t].running
    /\ ~held_for[t].held
    /\ vet' = [vet EXCEPT ![t] = VerifyExecutionTime_ctor("scope", expected)]
    /\ UNCHANGED <<held_for, reports, unwinding, default_report_func_,
                   called>>
    /\ UNCHANGED <<lock_state, watcher, owners, beside_reporting>>

\* } the scope ends, by its last statement or by an exception that passes
\* through it: x is destroyed.
scope_leave(t) ==
    /\ pc[t] = "idle"
    /\ vet[t].owner = "scope"
    /\ VerifyExecutionTime_dtor(t)
    /\ UNCHANGED held_for
    /\ UNCHANGED <<lock_state, watcher, owners, beside_reporting>>

\* throw: an exception leaves the scopes of thread t, one after the other.
throw_exception(t) ==
    /\ pc[t] = "idle"
    /\ ~unwinding[t]
    /\ vet[t].running \/ NumGuards(t) > 0
    /\ unwinding' = [unwinding EXCEPT ![t] = TRUE]
    /\ UNCHANGED <<vet, held_for, reports, default_report_func_, called>>
    /\ UNCHANGED <<lock_state, watcher, owners, beside_reporting>>

\* catch: the exception has reached its handler.
catch_exception(t) ==
    /\ pc[t] = "idle"
    /\ unwinding[t]
    /\ unwinding' = [unwinding EXCEPT ![t] = FALSE]
    /\ UNCHANGED <<vet, held_for, reports, default_report_func_, called>>
    /\ UNCHANGED <<lock_state, watcher, owners, beside_reporting>>

\* The guard that thread t gets in this step, if it gets one with px # 0.
Got(t) == {g \in Guards : g.px /\ guards'[t][g] > guards[t][g]}

\* lock() and the no_lock_failed constructors, the last statement:
\* pc = VerifyExecutionTime::start (d->verify_execution_time_ms * 1e-3f,
\* d->report_func), when a watcher was wanted.  From here on the guard is
\* held.
pc_start(t) ==
    /\ held_for' = [held_for EXCEPT ![t] =
           IF Got(t) = {} THEN @
           ELSE [held |-> TRUE, c |-> (CHOOSE g \in Got(t) : TRUE).c, time |-> 0]]
    /\ vet' = [vet EXCEPT ![t] =
           IF \E g \in Got(t) : watched'[t][g] > watched[t][g]
           THEN VerifyExecutionTime_ctor("guard",
                    verify_execution_time_ms[(CHOOSE g \in Got(t) : TRUE).c])
           ELSE @]
    /\ UNCHANGED <<reports, unwinding, default_report_func_, called>>
    /\ UNCHANGED beside_reporting

\* A thread takes a guard only when it holds no locked guard and times no
\* scope.
MayLock(t) == MayStart(t) /\ ~held_for[t].held /\ ~vet[t].running

\* unlock() and the destructor of a guard that has no watcher: with px # 0
\* the guard is held no longer.
let_go(t, g) ==
    /\ held_for' = [held_for EXCEPT ![t] = IF g.px THEN NotHeld ELSE @]
    /\ UNCHANGED <<vet, reports, unwinding, default_report_func_, called>>
    /\ UNCHANGED beside_reporting

\* unlock() of a guard with a watcher, pc.reset (): the watcher is destroyed
\* and the guard is held no longer.
pc_reset_reports(t) ==
    /\ vet[t].owner = "guard"
    /\ VerifyExecutionTime_dtor(t)
    /\ held_for' = [held_for EXCEPT ![t] = NotHeld]
    /\ UNCHANGED beside_reporting

\* A millisecond passes for every running timer and every held guard.  No
\* time passes inside unlock().
elapse ==
    /\ \A t \in Threads : pc[t] # "resetting"
    /\ \E t \in Threads : vet[t].running \/ held_for[t].held
    /\ \A t \in Threads : vet[t].elapsed < MaxElapsed /\ held_for[t].time < MaxElapsed
    /\ vet' = [t \in Threads |->
                  IF vet[t].running THEN [vet[t] EXCEPT !.elapsed = @ + 1]
                  ELSE vet[t]]
    /\ held_for' = [t \in Threads |->
                  IF held_for[t].held THEN [held_for[t] EXCEPT !.time = @ + 1]
                  ELSE held_for[t]]
    /\ UNCHANGED <<reports, unwinding, default_report_func_, called>>
    /\ UNCHANGED <<lock_state, watcher, owners, beside_reporting>>

\* One thread and one cell of a type with any verify_execution_time_ms.  The
\* thread holds one locked guard at a time, so its calls find the lock free.
ReportInit ==
    /\ Constructed({"a"}, {"t1"})
    /\ \A c \in LiveCells : timeout_ms[c] \in {-1, 0}
    /\ verify_execution_time_ms \in {[c \in LiveCells |-> v] : v \in VerifyValues}
    /\ Unwatched
    /\ RisingAddresses

ReportNext ==
    \/ \E t \in Threads, c \in LiveCells :
          MayLock(t) /\ write_ptr_lock(t, c) /\ VerifyExecutionTime_start(t)
          /\ pc_start(t)
    \/ \E t \in Threads, c \in LiveCells :
          MayLock(t) /\ read_ptr_lock(t, c) /\ VerifyExecutionTime_start(t)
          /\ pc_start(t)
    \/ \E t \in Threads, c \in LiveCells :
          MayLock(t) /\ write_ptr_no_lock_failed(t, c)
          /\ VerifyExecutionTime_start(t) /\ pc_start(t)
    \/ \E t \in Threads, c \in LiveCells :
          MayLock(t) /\ read_ptr_no_lock_failed(t, c)
          /\ VerifyExecutionTime_start(t) /\ pc_start(t)
    \/ \E t \in Threads, g \in Guards :
          ~unwinding[t] /\ Unwatched_guard(t, g) /\ unlock(t, g)
          /\ UNCHANGED <<watcher, owners>> /\ let_go(t, g)
    \/ \E t \in Threads, g \in Guards :
          Unwatched_guard(t, g) /\ destroy(t, g)
          /\ UNCHANGED <<watcher, owners>> /\ let_go(t, g)
    \/ \E t \in Threads, g \in Guards, dtor \in BOOLEAN :
          (unwinding[t] => dtor) /\ l_unlock(t, g, dtor) /\ UNCHANGED apart
    \/ \E t \in Threads : pc_reset(t) /\ pc_reset_reports(t)
    \/ \E t \in Threads, expected \in ExpectedTimes : scope_start(t, expected)
    \/ \E t \in Threads : scope_leave(t)
    \/ \E t \in Threads : throw_exception(t)
    \/ \E t \in Threads : catch_exception(t)
    \/ elapse

ReportSpec == ReportInit /\ [][ReportNext]_vars

\* ------------------------------------------------------------- barriers
\* The steps of wait() are functions of the barrier and its threads,
\* s = [b |-> the members, w |-> the threads], so that they can be applied
\* one after the other.
TheBarrier == [b |-> barrier, w |-> waiter]

\* wait () is called: thread i is inside wait() for one more time.
barrier_call(s, i) ==
    [s EXCEPT !.w[i].pc = "called", !.w[i].calls = @ + 1]

\* return true / return false.
barrier_return(s, i, v) ==
    [s EXCEPT !.w[i].pc = "idle", !.w[i].step = 0, !.w[i].returns = @ + 1,
              !.w[i].ret = v]

\* spinning_barrier::wait: unsigned int step = step_.load ();
spinning_barrier_load(s, i) ==
    [s EXCEPT !.w[i].pc = "loaded", !.w[i].step = s.b.step_]

\* if (nwait_.fetch_add (1) == n_ - 1): the last thread to come goes on to
\* release the others, any other thread goes on to spin.
spinning_barrier_fetch_add(s, i) ==
    IF s.b.nwait_ = s.b.n_ - 1
    THEN [s EXCEPT !.b.nwait_ = @ + 1, !.w[i].pc = "last", !.w[i].step = 0]
    ELSE [s EXCEPT !.b.nwait_ = @ + 1, !.w[i].pc = "spinning"]

\* A slip: nwait_.store (0) left out.
spinning_barrier_store_forgotten(s, i) ==
    [s EXCEPT !.w[i].pc = "stored"]

\* nwait_.store (0);
spinning_barrier_store(s, i) ==
    [s EXCEPT !.b.nwait_ = 0, !.w[i].pc = "stored"]

\* A slip: step_.fetch_add (2), which a step_ of one bit does not show.
spinning_barrier_step_add_two(s, i) ==
    barrier_return([s EXCEPT !.b.step_ = (@ + 2) % (2 ^ StepBits)], i, TRUE)

\* step_.fetch_add (1); return true;
spinning_barrier_step_add(s, i) ==
    barrier_return([s EXCEPT !.b.step_ = (@ + 1) % (2 ^ StepBits)], i, TRUE)

\* A slip: "while (step_.load () != step)".
spinning_barrier_step_changed_while_differs(s, i) == s.b.step_ = s.w[i].step

\* while (step_.load () == step) ...: the loop is left when step_ differs.
spinning_barrier_step_changed(s, i) == s.b.step_ # s.w[i].step

\* ... return false;
spinning_barrier_leave(s, i) == barrier_return(s, i, FALSE)

\* locking_barrier::wait: std::unique_lock<std::mutex> l(m_);
locking_barrier_lock(s, i) ==
    [s EXCEPT !.b.m_ = i, !.w[i].pc = "locked"]

\* A slip: cv_.notify_one () for cv_.notify_all ().
cv_notify_one(w) ==
    IF \E j \in DOMAIN w : w[j].pc = "cv_wait"
    THEN [w EXCEPT ![CHOOSE j \in DOMAIN w : w[j].pc = "cv_wait"].pc = "notified"]
    ELSE w

\* cv_.notify_all (): every thread that waits on cv_ is woken.
cv_notify_all(w) ==
    [j \in DOMAIN w |->
        IF w[j].pc = "cv_wait" THEN [w[j] EXCEPT !.pc = "notified"] ELSE w[j]]

\* unsigned int step = step_; if (nwait_++ == n_ - 1) { nwait_ = 0;
\* step_++; cv_.notify_all (); return true; } else while (step_ == step)
\* cv_.wait (l): all of it under m_, which return and cv_.wait unlock.
locking_barrier_arrive(s, i) ==
    IF s.b.nwait_ = s.b.n_ - 1
    THEN barrier_return(
             [b |-> [s.b EXCEPT !.nwait_ = 0, !.step_ = (@ + 1) % (2 ^ StepBits),
                                !.m_ = 0],
              w |-> cv_notify_all(s.w)], i, TRUE)
    ELSE [s EXCEPT !.b.nwait_ = @ + 1, !.b.m_ = 0,
                   !.w[i].pc = "cv_wait", !.w[i].step = s.b.step_]

\* cv_.wait (l) returns with m_ locked again, and the loop tests
\* step_ == step: return false, or wait again.
locking_barrier_woken(s, i) ==
    IF s.b.step_ # s.w[i].step
    THEN barrier_return(s, i, FALSE)
    ELSE [s EXCEPT !.w[i].pc = "cv_wait"]

\* A wait on a condition variable may end without a notification.
cv_wait_spurious(s, i) == [s EXCEPT !.w[i].pc = "notified"]

\* A step of thread i of a barrier of the given kind that is at the given
\* place in wait(): the barrier and its threads become what f makes of
\* them.
barrier_step(kind, i, at, next) ==
    /\ barrier.kind = kind
    /\ i \in 1..barrier.n_
    /\ waiter[i].pc = at
    /\ barrier' = next.b
    /\ waiter' = next.w
    /\ UNCHANGED <<lock_state, watcher, owners, beside_barrier>>

spinning_wait_call(i) ==
    /\ waiter[i].calls < MaxRounds
    /\ barrier_step("spinning", i, "idle", barrier_call(TheBarrier, i))

spinning_wait_load(i) ==
    /\ waiter[i].pc = "called"
    /\ barrier_step("spinning", i, "called", spinning_barrier_load(TheBarrier, i))

spinning_wait_fetch_add(i) ==
    /\ waiter[i].pc = "loaded"
    /\ barrier_step("spinning", i, "loaded", spinning_barrier_fetch_add(TheBarrier, i))

spinning_wait_store(i) ==
    /\ waiter[i].pc = "last"
    /\ barrier_step("spinning", i, "last", spinning_barrier_store(TheBarrier, i))

spinning_wait_step_add(i) ==
    /\ waiter[i].pc = "stored"
    /\ barrier_step("spinning", i, "stored", spinning_barrier_step_add(TheBarrier, i))

spinning_wait_leave(i) ==
    /\ spinning_barrier_step_changed(TheBarrier, i)
    /\ barrier_step("spinning", i, "spinning", spinning_barrier_leave(TheBarrier, i))

locking_wait_call(i) ==
    /\ waiter[i].calls < MaxRounds
    /\ barrier_step("locking", i, "idle", barrier_call(TheBarrier, i))

locking_wait_lock(i) ==
    /\ barrier.m_ = 0
    /\ barrier_step("locking", i, "called", locking_barrier_lock(TheBarrier, i))

locking_wait_arrive(i) ==
    /\ waiter[i].pc = "locked"
    /\ barrier_step("locking", i, "locked", locking_barrier_arrive(TheBarrier, i))

locking_wait_woken(i) ==
    /\ barrier.m_ = 0
    /\ barrier_step("locking", i, "notified", locking_barrier_woken(TheBarrier, i))

locking_wait_spurious(i) ==
    /\ waiter[i].pc = "cv_wait"
    /\ barrier_step("locking", i, "cv_wait", cv_wait_spurious(TheBarrier, i))

\* A barrier of either kind for n threads; nothing else goes on.
BarrierInit ==
    /\ timeout_ms = [c \in {} |-> 0]
    /\ types = [c \in Cells |-> Specialized(MaxTimeout)]
    /\ write_entered = [c \in Cells |-> FALSE]
    /\ n_readers = [c \in Cells |-> 0]
    /\ guards = [t \in Threads |-> [g \in Guards |-> 0]]
    /\ pc = [t \in Threads |-> "off"]
    /\ call = [t \in Threads |-> NoCall]
    /\ result = [t \in Threads |-> NoResult]
    /\ Allocated({})
    /\ ReleaseBuild
    /\ RisingAddresses
    /\ Unread
    /\ Unreported
    /\ DefaultBuild
    /\ NoExceptions
    /\ NoLogging
    /\ \E kind \in {"spinning", "locking"}, n \in 1..MaxN :
          barrier = Barrier(kind, n)
    /\ waiter = [i \in Participants |-> Outside]

BarrierNext ==
    \/ \E i \in Participants : spinning_wait_call(i)
    \/ \E i \in Participants : spinning_wait_load(i)
    \/ \E i \in Participants : spinning_wait_fetch_add(i)
    \/ \E i \in Participants : spinning_wait_store(i)
    \/ \E i \in Participants : spinning_wait_step_add(i)
    \/ \E i \in Participants : spinning_wait_leave(i)
    \/ \E i \in Participants : locking_wait_call(i)
    \/ \E i \in Participants : locking_wait_lock(i)
    \/ \E i \in Participants : locking_wait_arrive(i)
    \/ \E i \in Participants : locking_wait_woken(i)
    \/ \E i \in Participants : locking_wait_spurious(i)

BarrierSpec == BarrierInit /\ [][BarrierNext]_vars

\* Every thread of a locking_barrier gets m_ again and again when it is
\* free again and again, and goes on when it has it.
BarrierFairness ==
    \A i \in Participants :
        /\ SF_vars(locking_wait_lock(i))
        /\ WF_vars(locking_wait_arrive(i))
        /\ SF_vars(locking_wait_woken(i))

BarrierFairSpec == BarrierSpec /\ BarrierFairness

\* Every thread of a spinning_barrier that can take its next step inside
\* wait() takes it: the threads run on cores of their own or yield.
SpinningFairness ==
    \A i \in Participants :
        /\ WF_vars(spinning_wait_load(i))
        /\ WF_vars(spinning_wait_fetch_add(i))
        /\ WF_vars(spinning_wait_store(i))
        /\ WF_vars(spinning_wait_step_add(i))
        /\ WF_vars(spinning_wait_leave(i))

BarrierWrapSpec == BarrierSpec /\ BarrierFairness /\ SpinningFairness

\* ---------------------------------------------------- EXPECT_EXCEPTION
\* The exception types of the sources, int for "throw 1", and the direct
\* bases each class is declared with.
ExceptionTypes ==
    {"int", "std::exception", "boost::exception", "ExceptionAssert",
     "lock_failed", "shared_state::lock_failed",
     "exptected_exception", "unexptected_exception"}

Bases(E) ==
    CASE E = "ExceptionAssert" -> {"boost::exception", "std::exception"}
      [] E = "lock_failed" -> {"boost::exception", "std::exception"}
      [] E = "shared_state::lock_failed" -> {"lock_failed"}
      [] E = "exptected_exception" -> {"boost::exception", "std::exception"}
      [] E = "unexptected_exception" ->
             {"boost::exception", "std::exception"}
      [] OTHER -> {}

\* What F may be: an expression that throws an object of one of the types,
\* or one that throws nothing.
Expressions == ExceptionTypes \cup {"nothing"}

RECURSIVE is_base_of(_, _)
is_base_of(B, E) == \E D \in Bases(E) : D = B \/ is_base_of(B, D)

catches_exactly(H, E) == E = H

\* catch (const H&) catches an exception object of type E: E is H, or H is an
\* unambiguous public base of E.
catches(H, E) == E = H \/ is_base_of(H, E)

\* bool thrown = false; try { F; }
EXPECT_EXCEPTION_try(e) ==
    [e EXCEPT !.in_flight = e.F,
              !.step = IF e.F = "nothing" THEN "after" ELSE "handlers"]

\* The handlers of the try block, in their order: catch (const X&) sets
\* thrown; catch (const std::exception&) throws unexptected_exception, which
\* leaves the macro; an exception that neither catches goes on as it is.
EXPECT_EXCEPTION_handlers(e) ==
    IF catches(e.X, e.in_flight)
    THEN [e EXCEPT !.thrown = TRUE, !.in_flight = "nothing",
                   !.step = "after"]
    ELSE IF catches("std::exception", e.in_flight)
    THEN [e EXCEPT !.in_flight = "nothing",
                   !.raised = "unexptected_exception", !.step = "left"]
    ELSE [e EXCEPT !.in_flight = "nothing",
                   !.raised = e.in_flight, !.step = "left"]

\* if (!thrown) BOOST_THROW_EXCEPTION (exptected_exception () ...)
EXPECT_EXCEPTION_after(e) ==
    IF ~e.thrown
    THEN [e EXCEPT !.raised = "exptected_exception", !.step = "left"]
    ELSE [e EXCEPT !.step = "completed"]

\* A test reaches EXPECT_EXCEPTION (X, F).
expect_begin(X, F) ==
    /\ expect.step \in {"none", "left", "completed"}
    /\ expect' = [NoExpect EXCEPT !.X = X, !.F = F, !.step = "try"]
    /\ UNCHANGED <<lock_state, watcher, owners, beside_expect>>

expect_try ==
    /\ expect.step = "try"
    /\ expect' = EXPECT_EXCEPTION_try(expect)
    /\ UNCHANGED <<lock_state, watcher, owners, beside_expect>>

expect_handlers ==
    /\ expect.step = "handlers"
    /\ expect' = EXPECT_EXCEPTION_handlers(expect)
    /\ UNCHANGED <<lock_state, watcher, owners, beside_expect>>

expect_after ==
    /\ expect.step = "after"
    /\ expect' = EXPECT_EXCEPTION_after(expect)
    /\ UNCHANGED <<lock_state, watcher, owners, beside_expect>>

\* No cell and no thread: a test that uses the macro on one expression
\* after another.
ExpectInit ==
    /\ timeout_ms = [c \in {} |-> 0]
    /\ types = [c \in Cells |-> Specialized(MaxTimeout)]
    /\ Fresh({})
    /\ Allocated({})
    /\ ReleaseBuild
    /\ RisingAddresses

ExpectNext ==
    \/ \E X \in ExceptionTypes, F \in Expressions : expect_begin(X, F)
    \/ expect_try
    \/ expect_handlers
    \/ expect_after

ExpectSpec == ExpectInit /\ [][ExpectNext]_vars

\* ------------------------------------------ constructors that throw
\* An object of a class with one member of class InnerDestructor, as
\* ThrowInConstructor of the tests, whose constructor body is "throw 1", and
\* as a class whose constructor returns.  The object is a local variable, as
\* in the test, or is made by new for shared_state (Y* p).
Classes == {"ThrowInConstructor", "A"}
Storages == {"automatic", "new"}

\* The definition of a local variable, or operator new of a new-expression:
\* the storage is there, the members come first.
construction_begin(T, storage) ==
    [NoConstruction EXCEPT !.step = "members", !.class = T,
                           !.storage = storage,
                           !.allocated = (storage = "new")]

\* InnerDestructor (bool* inner_destructor): the member inner is constructed
\* by the initializer list, before the body of the constructor.
InnerDestructor_ctor(k) == [k EXCEPT !.inner = TRUE, !.step = "body"]

\* The body of the constructor: throw 1 in ThrowInConstructor, which begins
\* to unwind; nothing in the other class, whose object is complete.
constructor_body(k) ==
    IF k.class = "ThrowInConstructor"
    THEN [k EXCEPT !.exception = [type |-> "int", value |-> 1],
                   !.step = "unwinding"]
    ELSE [k EXCEPT !.step = "built"]

\* ~T () { *outer_destructor = true; } of a complete object whose scope ends;
\* its members follow.
outer_dtor(k) == [k EXCEPT !.outer_destructor = TRUE, !.step = "members"]

InnerDestructor_dtor_forgotten(k) ==
    [k EXCEPT !.inner = FALSE,
              !.step = IF k.allocated THEN "freeing"
                       ELSE IF k.exception # NoException THEN "propagated"
                       ELSE "destroyed"]

\* ~InnerDestructor () { *inner_destructor = true; }: of the member of an
\* object that is destroyed, and of the constructed member of an object
\* whose constructor has thrown.  The storage from new is freed next.
InnerDestructor_dtor(k) ==
    [k EXCEPT !.inner = FALSE, !.inner_destructor = TRUE,
              !.step = IF k.allocated THEN "freeing"
                       ELSE IF k.exception # NoException THEN "propagated"
                       ELSE "destroyed"]

\* The new-expression frees the storage when the constructor has thrown, and
\* the exception goes on to the caller.
operator_delete(k) == [k EXCEPT !.allocated = FALSE, !.step = "propagated"]

construction_step(at, next) ==
    /\ construction.step \in at
    /\ construction' = next
    /\ UNCHANGED <<lock_state, watcher, owners, beside_construction>>

construct_begin(T, storage) ==
    /\ ~construction.inner
    /\ construction_step({"none", "over"}, construction_begin(T, storage))

construct_members ==
    /\ ~construction.inner
    /\ construction_step({"members"}, InnerDestructor_ctor(construction))

construct_body ==
    /\ construction.inner
    /\ construction_step({"body"}, constructor_body(construction))

\* shared_state (Y* p) with the pointer to the complete object: the cell.
construct_shared_state(s, c) ==
    /\ construction.step = "built"
    /\ construction.storage = "new"
    /\ shared_state_new(s, c)
    /\ construction' = NoConstruction

\* The scope of a complete local variable ends.
destroy_outer ==
    /\ construction.storage = "automatic"
    /\ construction_step({"built"}, outer_dtor(construction))

destroy_members ==
    /\ construction.inner
    /\ construction_step({"members", "unwinding"},
                         InnerDestructor_dtor(construction))

construct_free ==
    /\ construction.allocated
    /\ construction_step({"freeing"}, operator_delete(construction))

\* The exception has been caught, as by EXPECT_EXCEPTION (int, ...), or the
\* local variable is gone.
construct_over ==
    /\ ~construction.inner
    /\ construction_step({"propagated", "destroyed"},
                         [construction EXCEPT !.step = "over"])

\* No cell yet.
ConstructInit ==
    /\ Constructed({}, {})
    /\ ReleaseBuild
    /\ RisingAddresses

ConstructNext ==
    \/ \E T \in Classes, storage \in Storages : construct_begin(T, storage)
    \/ construct_members
    \/ construct_body
    \/ \E s \in Ptrs, c \in Cells : construct_shared_state(s, c)
    \/ destroy_outer
    \/ destroy_members
    \/ construct_free
    \/ construct_over

ConstructSpec == ConstructInit /\ [][ConstructNext]_vars

TypeOK ==
    /\ \A c \in LiveCells : timeout_ms[c] \in TimeoutValues
    /\ write_entered \in [Cells -> BOOLEAN]
    /\ n_readers \in [Cells -> Nat]
    /\ pc \in [Threads -> {"off", "idle", "waiting", "probe_unlock", "resetting"}]

\* ------------------------------------------------------------------ claims

\* C1: while a thread holds a write guard on a cell, that guard is the only
\* guard with a share of the cell's lock: the same thread holds no second
\* guard on it and no other thread holds a read or a write guard on it, nor
\* owns its mutex inside lock().  A competing acquisition therefore waits
\* or fails until the writer releases.
C1_WriteGuardExcludesAll ==
    \A c \in Cells, t \in Threads :
        HeldW(t, c) > 0 =>
            /\ HeldW(t, c) = 1
            /\ HeldR(t, c) = 0
            /\ \A u \in Threads \ {t} :
                  /\ Held(u, c) = 0
                  /\ ~Probing(u, "read", c)
                  /\ ~Probing(u, "write", c)

\* One thread holds the write guard while the other is blocked in the second
\* timed attempt of its own acquisition of the same cell.
C1_Witness ==
    \E t \in Threads, u \in Threads :
        /\ t # u
        /\ HeldW(t, "a") = 1
        /\ pc[u] = "waiting" /\ call[u].c = "a" /\ call[u].attempt = 2

\* C2: read guards on one cell coexist.  While read guards are held on a
\* cell and no thread is inside write() on it, read() and try_read() by any
\* thread, also one that holds a read guard already, return a guard holding
\* the lock at once; and no write guard is held on a cell while a read guard
\* on it is held.
C2_ReadSucceedsAmongReaders ==
    \A t \in Threads, c \in LiveCells :
        ( /\ AllHeldR(c) > 0
          /\ \A u \in Threads : ~InCall(u, "write", c)
          /\ read_ptr_lock(t, c) \/ read_ptr_no_lock_failed(t, c) )
        => /\ pc'[t] = "idle"
           /\ result'[t].kind = "guard"
           /\ HeldR(t, c)' = HeldR(t, c) + 1
           /\ n_readers'[c] = n_readers[c] + 1

C2_NoWriteGuardAmongReaders ==
    \A c \in Cells : AllHeldR(c) > 0 => AllHeldW(c) = 0

ModeOf(op) == IF op = "read" THEN "read" ELSE "write"

C3_Outcome(t, op, c) ==
    \/ /\ result'[t].kind = "lock_failed"
       /\ result'[t].op = op /\ result'[t].c = c
       /\ guards'[t] = guards[t]
    \/ /\ result'[t] = Returned("guard", op, c)
       /\ guards'[t] = [guards[t] EXCEPT
                           ![[c |-> c, mode |-> ModeOf(op), px |-> TRUE]] = @ + 1]
       /\ IF op = "write"
          THEN write_entered'[c] /\ n_readers'[c] = 0
          ELSE n_readers'[c] > 0

C3_CallEnds ==
    \A t \in Threads :
        /\ \A c \in LiveCells :
              (read_ptr_lock(t, c) /\ pc'[t] = "idle") => C3_Outcome(t, "read", c)
        /\ \A c \in LiveCells :
              (write_ptr_lock(t, c) /\ pc'[t] = "idle") => C3_Outcome(t, "write", c)
        /\ (pc[t] \in {"waiting", "probe_unlock"} /\ pc'[t] = "idle")
              => C3_Outcome(t, call[t].op, call[t].c)

C3_GuardOrLockFailed == [][C3_CallEnds]_vars /\ []MutexMatchesGuards

\* One thread holds the write guard that write() returned, after the other
\* thread's write() on the same cell has raised lock_failed.
C3_Witness ==
    \E t \in Threads, u \in Threads :
        /\ t # u
        /\ result[t] = Returned("guard", "write", "a") /\ HeldW(t, "a") = 1
        /\ result[u].kind = "lock_failed" /\ result[u].op = "write"

\* C4: try_read() and try_write() make one attempt and return.  They never
\* leave the thread waiting and never raise lock_failed.  The guard they
\* return is empty (px = 0), and the mutex untouched, exactly when the lock
\* could not be taken at that moment: for try_write when any share of it is
\* owned, for try_read when a writer owns it or has entered; otherwise the
\* guard has px # 0 and owns its share of the lock.
OwnedExclusively(c) ==
    \/ AllHeldW(c) > 0
    \/ \E u \in Threads : Probing(u, "write", c) \/ Entered(u, c)

OwnedAtAll(c) ==
    \/ OwnedExclusively(c)
    \/ AllHeldR(c) > 0
    \/ \E u \in Threads : Probing(u, "read", c)

C4_Outcome(t, op, c, mode, unavailable) ==
    /\ pc'[t] = "idle" /\ call'[t] = NoCall
    /\ IF unavailable
       THEN /\ result'[t] = Returned("empty", op, c)
            /\ guards'[t] = [guards[t] EXCEPT
                                ![[c |-> c, mode |-> mode, px |-> FALSE]] = @ + 1]
            /\ write_entered' = write_entered /\ n_readers' = n_readers
       ELSE /\ result'[t] = Returned("guard", op, c)
            /\ guards'[t] = [guards[t] EXCEPT
                                ![[c |-> c, mode |-> mode, px |-> TRUE]] = @ + 1]
            /\ IF mode = "write"
               THEN write_entered'[c] /\ n_readers'[c] = 0
               ELSE n_readers'[c] = n_readers[c] + 1

C4_TryStep ==
    \A t \in Threads, c \in LiveCells :
        /\ write_ptr_no_lock_failed(t, c)
              => C4_Outcome(t, "try_write", c, "write", OwnedAtAll(c))
        /\ read_ptr_no_lock_failed(t, c)
              => C4_Outcome(t, "try_read", c, "read", OwnedExclusively(c))

C4_TryNeverWaitsNorThrows ==
    [][C4_TryStep]_vars
    /\ [](\A t \in Threads :
             result[t].op \in {"try_read", "try_write"}
                => result[t].kind \in {"guard", "empty"})

\* try_write() of one thread has returned an empty guard, which the thread
\* still has, while the other thread holds the read guard that its try_read()
\* returned.
C4_Witness ==
    \E t \in Threads, u \in Threads :
        /\ t # u
        /\ result[t] = Returned("empty", "try_write", "a")
        /\ guards[t][[c |-> "a", mode |-> "write", px |-> FALSE]] = 1
        /\ result[u] = Returned("guard", "try_read", "a")
        /\ HeldR(u, "a") = 1

\* C5: the deadlock probe.  A first timed attempt of read()/write() ends
\* with the guard or, when its time is up, with a second timed attempt of the
\* same duration, the cell's timeout.  A call that has started its second
\* attempt ends with lock_failed and without a new guard in every case.  When
\* the second attempt obtained the lock, the thread gives it back in the step
\* that raises lock_failed, so that after lock_failed the thread owns no share
\* of the mutex besides those of its guards.
C5_FirstAttemptEnds(t) ==
    (pc[t] = "waiting" /\ call[t].attempt = 1 /\ call'[t].attempt # 1)
    => \/ /\ pc'[t] = "idle"
          /\ result'[t] = Returned("guard", call[t].op, call[t].c)
       \/ /\ call[t].remaining = 0
          /\ pc'[t] = "waiting"
          /\ call'[t].attempt = 2
          /\ call'[t].remaining = timeout_ms[call[t].c]
          /\ call'[t].op = call[t].op /\ call'[t].c = call[t].c
          /\ ~call'[t].entered
          /\ guards'[t] = guards[t]

C5_SecondAttemptEnds(t) ==
    (pc[t] \in {"waiting", "probe_unlock"} /\ call[t].attempt = 2 /\ pc'[t] = "idle")
    => /\ result'[t].kind = "lock_failed"
       /\ guards'[t] = guards[t]
       /\ pc[t] = "probe_unlock" =>
             IF call[t].op = "write"
             THEN write_entered[call[t].c] /\ ~write_entered'[call[t].c]
             ELSE n_readers'[call[t].c] = n_readers[call[t].c] - 1

C5_NothingKept ==
    \A t \in Threads, c \in Cells :
        (pc[t] = "idle" /\ result[t].kind = "lock_failed" /\ result[t].c = c)
        => /\ n_readers[c] = AllHeldR(c)
                 + Cardinality({u \in Threads \ {t} : Probing(u, "read", c)})
           /\ write_entered[c] <=>
                 \/ AllHeldW(c) > 0
                 \/ \E u \in Threads \ {t} : Probing(u, "write", c) \/ Entered(u, c)

C5_DeadlockProbe ==
    /\ [][\A t \in Threads : C5_FirstAttemptEnds(t) /\ C5_SecondAttemptEnds(t)]_vars
    /\ []C5_NothingKept

\* write() has raised lock_failed after a second attempt that obtained the
\* lock (try_again), and the mutex is free again: nobody holds a guard.
C5_Witness ==
    \E t \in Threads :
        /\ result[t].kind = "lock_failed" /\ result[t].op = "write"
        /\ result[t].try_again_value
        /\ pc[t] = "idle"
        /\ ~write_entered["a"] /\ n_readers["a"] = 0
        /\ \A u \in Threads : Held(u, "a") = 0

\* C6: every lock_failed of read()/write() carries as timeout_value the
\* timeout_ms of the cell's details, which lock() copies when it starts and
\* keeps for both timed attempts, and as try_again_value the outcome of the
\* second attempt: true when the thread had obtained the lock in it (and
\* gives it back while throwing), false when the second attempt timed out.
C6_Values ==
    \A t \in Threads :
        /\ result[t].kind = "lock_failed"
              => /\ result[t].c \in LiveCells
                 /\ result[t].timeout_value = timeout_ms[result[t].c]
                 /\ result[t].timeout_value >= 0
        /\ pc[t] \in {"waiting", "probe_unlock"}
              => /\ call[t].timeout_ms = timeout_ms[call[t].c]
                 /\ call[t].remaining <= call[t].timeout_ms \/ call[t].attempt = 0

C6_Throw(t) ==
    /\ (pc[t] # "idle" /\ pc'[t] # "idle")
          => call'[t].timeout_ms = call[t].timeout_ms
    /\ (pc[t] = "probe_unlock" /\ pc'[t] = "idle")
          => /\ result'[t].kind = "lock_failed"
             /\ result'[t].timeout_value = timeout_ms[call[t].c]
             /\ result'[t].try_again_value = TRUE
    /\ (pc[t] = "waiting" /\ pc'[t] = "idle" /\ result'[t].kind = "lock_failed")
          => /\ result'[t].timeout_value = timeout_ms[call[t].c]
             /\ result'[t].try_again_value = FALSE
             /\ call[t].attempt = 2 /\ call[t].remaining = 0
             /\ n_readers' = n_readers
    /\ (pc[t] = "waiting" /\ pc'[t] = "probe_unlock")
          => /\ call[t].attempt = 2
             /\ IF call[t].op = "write"
                THEN write_entered[call[t].c] /\ n_readers[call[t].c] = 0
                ELSE n_readers'[call[t].c] = n_readers[call[t].c] + 1

C6_LockFailedValues ==
    [][\A t \in Threads : C6_Throw(t)]_vars /\ []C6_Values

\* read() on a cell with timeout 1 has raised lock_failed with
\* timeout_value 1 and try_again_value true.
C6_Witness ==
    \E t \in Threads :
        /\ pc[t] = "idle"
        /\ timeout_ms["a"] = 1
        /\ result[t].kind = "lock_failed" /\ result[t].op = "read"
        /\ result[t].timeout_value = 1 /\ result[t].try_again_value

\* C7: with timeout < 0 read()/write() never raise lock_failed and never
\* make a timed attempt: a call that finds the lock unavailable waits in
\* l.lock()/l.lock_shared().  While a guard that excludes the call holds
\* the lock the call does not return, so a recursive write waits for ever.
\* Under fair scheduling a call that waits for ever implies that from some
\* time on the cell's lock is always held by some guard: when the holders
\* release the lock again and again, the call returns (with a guard, C3).
Blocked0(t) == pc[t] = "waiting" /\ call[t].attempt = 0

LockHeld(c) ==
    \E u \in Threads, g \in Guards : guards[u][g] > 0 /\ g.px /\ g.c = c

ExcludedBy(t, u) ==
    \E g \in Guards :
        /\ guards[u][g] > 0 /\ g.px /\ g.c = call[t].c
        /\ call[t].op = "write" \/ g.mode = "write"

C7_NoLockFailed ==
    \A t \in Threads :
        /\ result[t].kind = "lock_failed" => timeout_ms[result[t].c] >= 0
        /\ pc[t] = "probe_unlock" => timeout_ms[call[t].c] >= 0
        /\ pc[t] = "waiting" => (timeout_ms[call[t].c] < 0 <=> Blocked0(t))

C7_WaitsWhileHeld(t) ==
    /\ (Blocked0(t) /\ \E u \in Threads : ExcludedBy(t, u))
          => /\ Blocked0(t)'
             /\ result'[t] = result[t] /\ guards'[t] = guards[t]
    /\ (Blocked0(t) /\ ExcludedBy(t, t)) => ExcludedBy(t, t)'

C7_ReturnsOnceReleased ==
    \A t \in Threads :
        <>[](Blocked0(t)) => <>[](Blocked0(t) /\ LockHeld(call[t].c))

Fast(t) == pc[t] # "idle" /\ pc[t] # "off" /\ call[t].timeout_ms = 0

ExcludedByOther(t) == \E u \in Threads \ {t} : ExcludedBy(t, u)

C8_NeverBlocked ==
    \A t \in Threads :
        Fast(t) => /\ timeout_ms[call[t].c] = 0
                   /\ call[t].attempt \in {1, 2} /\ call[t].remaining = 0
                   /\ ~ENABLED Tick
                   /\ ENABLED (mutex_locked(t) \/ lock_goes_on(t))

C8_FailsWhileHeld(t) ==
    /\ (Fast(t) /\ ExcludedByOther(t))
          => /\ guards'[t] = guards[t]
             /\ pc'[t] = "idle" => result'[t].kind = "lock_failed"
    /\ \A c \in LiveCells :
          ( /\ timeout_ms[c] = 0
            /\ write_ptr_lock(t, c) \/ read_ptr_lock(t, c)
            /\ guards'[t] # guards[t] )
          => \A u \in Threads \ {t}, g \in Guards :
                (guards[u][g] > 0 /\ g.px /\ g.c = c)
                    => (g.mode = "read" /\ read_ptr_lock(t, c))

C8_Ends == \A t \in Threads : []<>(~Fast(t))

C8_ZeroTimeoutFailsFast ==
    /\ []C8_NeverBlocked
    /\ [][\A t \in Threads : C8_FailsWhileHeld(t)]_vars
    /\ C8_Ends

\* write() on a cell with timeout 0 has raised lock_failed while another
\* thread holds a write guard on the cell.
C8_Witness ==
    \E t \in Threads, u \in Threads :
        /\ t # u /\ pc[t] = "idle"
        /\ result[t].kind = "lock_failed" /\ result[t].op = "write"
        /\ timeout_ms[result[t].c] = 0
        /\ HeldW(u, result[t].c) = 1

\* C10: a thread that holds a write guard on a cell with timeout >= 0 and
\* calls write() on that cell again does not get a guard from the first
\* try_lock, keeps exactly the guards it has while the call lasts, never
\* obtains the lock in the second attempt, and under fair scheduling ends the
\* call with lock_failed whose try_again_value is false.
RecursiveWrite(t) ==
    /\ pc[t] \in {"waiting", "probe_unlock"}
    /\ call[t].op = "write" /\ call[t].timeout_ms >= 0
    /\ HeldW(t, call[t].c) > 0

C10_Refused(t) ==
    /\ \A c \in LiveCells :
          (HeldW(t, c) > 0 /\ timeout_ms[c] >= 0 /\ write_ptr_lock(t, c))
              => RecursiveWrite(t)' /\ guards'[t] = guards[t]
    /\ RecursiveWrite(t)
          => /\ pc[t] = "waiting"
             /\ guards'[t] = guards[t]
             /\ HeldW(t, call[t].c) = 1
             /\ write_entered'[call[t].c]
             /\ IF pc'[t] = "idle"
                THEN /\ result'[t].kind = "lock_failed"
                     /\ result'[t].op = "write" /\ result'[t].c = call[t].c
                     /\ result'[t].try_again_value = FALSE
                ELSE RecursiveWrite(t)'

C10_Ends == \A t \in Threads : []<>(~RecursiveWrite(t))

C10_RecursiveWriteRefused ==
    [][\A t \in Threads : C10_Refused(t)]_vars /\ C10_Ends

\* The recursive write() has raised lock_failed with try_again_value false;
\* the thread holds its first write guard, and no other guard holds the lock
\* of the cell.
C10_Witness ==
    \E t \in Threads :
        /\ pc[t] = "idle"
        /\ result[t].kind = "lock_failed" /\ result[t].op = "write"
        /\ ~result[t].try_again_value
        /\ timeout_ms[result[t].c] >= 0
        /\ HeldW(t, result[t].c) = 1 /\ HeldR(t, result[t].c) = 0
        /\ \A u \in Threads \ {t} : Held(u, result[t].c) = 0 /\ call[u] = NoCall

\* C9: in the run of m(b, a) and m(a, b) with a timeout T >= 0, both
\* p2.write() raise lock_failed, neither thread gets w2, and at most one of
\* the two lock_failed has try_again_value true.
C9_BothLockFailed ==
    /\ \A t \in DeadlockThreads :
          /\ HeldW(t, p2(t)) = 0
          /\ SecondWriteOver(t) => result[t].kind = "lock_failed"
    /\ ~ \A t \in DeadlockThreads :
            SecondWriteOver(t) /\ result[t].try_again_value

\* C11: the step in which a guard with px # 0 goes away gives its share of
\* the mutex back, whether the thread leaves the scope normally or unwinds
\* after lock_failed.  So whenever no guard holds the lock of a cell and no
\* thread is inside read()/write() on it, the mutex is free, and try_write()
\* by any thread returns a guard that holds the lock.
Quiet(c) ==
    \A t \in Threads :
        /\ Held(t, c) = 0
        /\ ~(pc[t] \in {"waiting", "probe_unlock"} /\ call[t].c = c)

C11_ShareGivenBack ==
    \A t \in Threads, g \in Guards :
        (g.px /\ guards'[t][g] < guards[t][g])
            => IF g.mode = "write"
               THEN write_entered[g.c] /\ ~write_entered'[g.c]
               ELSE n_readers'[g.c] = n_readers[g.c] - 1

C11_TryWriteSucceeds ==
    \A u \in Threads, c \in LiveCells :
        (Quiet(c) /\ write_ptr_no_lock_failed(u, c))
            => /\ result'[u].kind = "guard"
               /\ guards'[u][[c |-> c, mode |-> "write", px |-> TRUE]] = 1

C11_DestroyReleases ==
    /\ [][C11_ShareGivenBack /\ C11_TryWriteSucceeds]_vars
    /\ [](\A c \in LiveCells : Quiet(c) => ~write_entered[c] /\ n_readers[c] = 0)

\* One thread has got lock_failed and has unwound all its guards; the other
\* thread's try_write() then returned a guard.
C11_Witness ==
    \E t \in Threads, u \in Threads :
        /\ t # u
        /\ pc[t] = "idle" /\ result[t].kind = "lock_failed"
        /\ NumGuards(t) = 0
        /\ result[u].kind = "guard" /\ result[u].op = "try_write"
        /\ HeldW(u, result[u].c) = 1 /\ NumGuards(u) = 1

C12_Paired ==
    \A t \in Threads, g \in Guards :
        watched[t][g] = IF g.px /\ g.c \in LiveCells
                           /\ verify_execution_time_ms[g.c] > 0
                        THEN guards[t][g] ELSE 0

C12_HookSteps(t) ==
    /\ \A g \in Guards :
          /\ (g.px /\ guards'[t][g] > guards[t][g])
                => /\ guards'[t][g] = guards[t][g] + 1
                   /\ result'[t].kind = "guard" /\ result'[t].c = g.c
                   /\ watched'[t][g] = watched[t][g]
                          + (IF verify_execution_time_ms[g.c] > 0 THEN 1 ELSE 0)
          /\ watched'[t][g] > watched[t][g]
                => g.px /\ guards'[t][g] > guards[t][g]
          /\ watched'[t][g] < watched[t][g]
                => /\ watched'[t][g] = watched[t][g] - 1
                   /\ guards'[t][g] = guards[t][g] - 1
                   /\ pc[t] = "idle" /\ pc'[t] = "resetting"
                   /\ resetting'[t].c = g.c /\ resetting'[t].mode = g.mode
    /\ (pc'[t] = "resetting" /\ pc[t] # "resetting")
          => pc[t] = "idle" /\ resetting[t] = NoGuard
    /\ pc[t] = "resetting"
          => /\ pc'[t] \in {"resetting", "idle"}
             /\ watched'[t] = watched[t]
             /\ pc'[t] = "idle" <=> resetting'[t] = NoGuard
    /\ (result'[t] # result[t] /\ result'[t].kind \in {"lock_failed", "empty"})
          => watched'[t] = watched[t] /\ pc'[t] = "idle"

Conflicting(g, c, mode) ==
    g.px /\ g.c = c /\ (g.mode = "write" \/ mode = "write")

C13_StartOwns(t) ==
    \A g \in Guards :
        watched'[t][g] > watched[t][g] =>
            /\ guards'[t][g] > 0
            /\ IF g.mode = "write" THEN write_entered'[g.c]
                                   ELSE n_readers'[g.c] > 0

C13_StopAfterRelease(t) ==
    /\ (pc[t] = "idle" /\ pc'[t] = "resetting") =>
           IF resetting'[t].mode = "write"
           THEN write_entered[resetting'[t].c]
                /\ ~write_entered'[resetting'[t].c]
           ELSE n_readers'[resetting'[t].c]
                   = n_readers[resetting'[t].c] - 1
    /\ (pc[t] = "resetting" /\ pc'[t] = "idle") =>
           /\ write_entered' = write_entered
           /\ n_readers' = n_readers

C14_LockReturns ==
    (weak.step = "data_locked" /\ weak'.step = "idle") =>
        LET both == /\ weak.datap # "none"
                    /\ weak.p # "none"
                    /\ use_count[weak.p]["p"] > 0
        IN  /\ weak'.returned = IF both THEN "cell" ELSE "empty"
            /\ ptrs'[weak.into] =
                  IF both
                  THEN [NoPtr EXCEPT !.p = weak.p, !.d = weak.data]
                  ELSE NoPtr
            /\ both => ~deleted'[weak.p]["p"] /\ ~deleted'[weak.data]["d"]

C14_DataLocked ==
    (weak.step = "idle" /\ weak'.step = "data_locked") =>
        weak'.datap = IF weak.data # "none" /\ ~deleted[weak.data]["d"]
                      THEN weak.data ELSE "none"

C14_NoHalfCell ==
    \A s \in Ptrs : Idle(s) => (ptrs[s].p = "none" <=> ptrs[s].d = "none")

C14_WeakLockAllOrNothing ==
    /\ []C14_NoHalfCell
    /\ [][C14_LockReturns /\ C14_DataLocked]_vars

\* lock() has returned an empty cell although the value is still alive:
\* the details went first, in the destructor of the last cell.
C14_Witness ==
    /\ weak.returned = "empty"
    /\ weak.p = "a"
    /\ use_count["a"]["p"] > 0
    /\ deleted["a"]["d"]

\* The cells, guards and locals of a running weak_ptr::lock() that hold a
\* shared_ptr to member m of cell c.
Refs(c, m) ==
    Cardinality({s \in Ptrs : ptrs[s][m] = c})
    + Sum([t \in Threads |->
              Sum([g \in Guards |-> IF g.c = c THEN guards[t][g] ELSE 0],
                  Guards)], Threads)
    + (IF m = "d" /\ weak.datap = c THEN 1 ELSE 0)

WeakRefs(c, m) ==
    IF (m = "p" /\ weak.p = c) \/ (m = "d" /\ weak.data = c) THEN 1 ELSE 0

NoCellOf(c) == \A s \in Ptrs : ptrs[s].p # c /\ ptrs[s].d # c

\* C16: a guard keeps the value and the mutex alive on its own: as long as
\* the guard is there, also after every cell copy has been destroyed or
\* reset, neither the value nor the details with the mutex have been
\* deleted, and the step that releases or destroys the guard finds both.
C16_GuardHoldsBoth ==
    \A t \in Threads, g \in Guards :
        guards[t][g] > 0 => ~deleted[g.c]["p"] /\ ~deleted[g.c]["d"]

C16_ReleaseFindsMutex ==
    \A t \in Threads, g \in Guards :
        (guards'[t][g] < guards[t][g] /\ g.px) =>
            /\ ~deleted[g.c]["d"]
            /\ IF g.mode = "write" THEN write_entered[g.c] /\ ~write_entered'[g.c]
                                   ELSE n_readers'[g.c] = n_readers[g.c] - 1

C16_GuardKeepsAlive ==
    /\ []C16_GuardHoldsBoth
    /\ [][C16_ReleaseFindsMutex]_vars

\* A write guard that holds the lock of a cell of which no copy is left.
C16_Witness ==
    /\ NoCellOf("a")
    /\ guards["t1"][[c |-> "a", mode |-> "write", px |-> TRUE]] = 1
    /\ write_entered["a"]
    /\ use_count["a"] = [p |-> 1, d |-> 1]

\* C17: cells compare by identity.  Two cells are equal iff they alias the
\* same value (two empty cells are equal); operator< is a strict total
\* order that agrees with ==: of a<b, b<a, a==b exactly one holds, < is
\* transitive, and no step that leaves two cells alone changes how they
\* compare.
C17_Identity ==
    \A s, s2 \in Ptrs :
        (Idle(s) /\ Idle(s2)) =>
            /\ operator_eq(s, s2) <=> ptrs[s].p = ptrs[s2].p
            /\ Cardinality({x \in {"lt", "gt", "eq"} :
                   \/ x = "lt" /\ operator_less(s, s2)
                   \/ x = "gt" /\ operator_less(s2, s)
                   \/ x = "eq" /\ operator_eq(s, s2)}) = 1
            /\ \A s3 \in Ptrs :
                   (Idle(s3) /\ operator_less(s, s2) /\ operator_less(s2, s3))
                       => operator_less(s, s3)

C17_Stable ==
    \A s, s2 \in Ptrs :
        (Idle(s) /\ Idle(s2) /\ ptrs'[s] = ptrs[s] /\ ptrs'[s2] = ptrs[s2]) =>
            /\ operator_less(s, s2)' = operator_less(s, s2)
            /\ operator_eq(s, s2)' = operator_eq(s, s2)

C17_OrderedByIdentity == []C17_Identity /\ [][C17_Stable]_vars

\* A cell, a copy of it and a separately constructed cell that the
\* allocator has put below the first.
C17_Witness ==
    /\ ptrs["ptr1"].p = "a" /\ ptrs["ptr3"].p = "a" /\ ptrs["ptr2"].p = "b"
    /\ \A s \in Ptrs : Idle(s)
    /\ address["b"] < address["a"]
    /\ operator_eq("ptr1", "ptr3") /\ operator_less("ptr2", "ptr1")

\* C18: a const cell constructed from a mutable cell shares its value and
\* its mutex: the new cell has the p and the d of the cell it was made
\* from; a try_read() through a const cell returns an empty guard while
\* another thread holds a write guard on the value, and a try_write()
\* through a mutable cell returns an empty guard while another thread holds a
\* read guard on it.
C18_SameTriple ==
    \A s \in Ptrs :
        (Idle(s) /\ ptrs[s].p # "none") =>
            /\ ptrs[s].d = ptrs[s].p
            /\ ~deleted[ptrs[s].p]["p"] /\ ~deleted[ptrs[s].d]["d"]

C18_CopyAliases ==
    \A s2 \in Ptrs :
        (FreePtr(s2) /\ ptrs'[s2] # ptrs[s2]) =>
            \E s \in Ptrs \ {s2} :
                /\ ptrs'[s2].p = ptrs[s].p /\ ptrs'[s2].d = ptrs[s].d
                /\ ptrs[s].is_const => ptrs'[s2].is_const

C18_ConstReadExcluded ==
    \A t \in Threads, s \in Ptrs :
        /\ (/\ ptrs[s].is_const
            /\ ptrs[s].p # "none"
            /\ \E u \in Threads \ {t} : HeldW(u, ptrs[s].p) > 0
            /\ ptr_try_read(t, s))
              => /\ result'[t].kind = "empty"
                 /\ n_readers' = n_readers
        /\ (/\ ~ptrs[s].is_const
            /\ ptrs[s].p # "none"
            /\ \E u \in Threads \ {t} : HeldR(u, ptrs[s].p) > 0
            /\ ptr_try_write(t, s))
              => /\ result'[t].kind = "empty"
                 /\ write_entered' = write_entered

C19_NestedWhenDeclared ==
    \A c \in Cells :
        LET C == types[c]
        IN  shared_state_traits_helper(C) =
               IF C.nested.kind # "none" THEN C.nested
               ELSE IF C.specialization.kind # "none" THEN C.specialization
               ELSE shared_state_traits_default

\* C19 (amended): the traits of a cell of type C are C's nested
\* shared_state_traits when C declares one that has a member timeout_ms,
\* otherwise the specialization shared_state_traits<C>, otherwise the
\* defaults; a nested class with timeout_ms is used also when a
\* specialization exists, and the timeout_ms of a constructed cell is the one
\* of these traits.
C19_Selected(C) ==
    IF C.nested.kind = "nested" THEN C.nested
    ELSE IF C.specialization.kind = "specialization" THEN C.specialization
    ELSE [kind |-> "default", timeout_ms |-> 100]

C19_TraitsSelection ==
    \A c \in Cells :
        /\ shared_state_traits_helper(types[c]) = C19_Selected(types[c])
        /\ c \in LiveCells => timeout_ms[c] = C19_Selected(types[c]).timeout_ms

\* A cell of a type that declares nested traits and a specialization with
\* another timeout has been constructed.
C19_Witness ==
    /\ "a" \in LiveCells
    /\ types["a"].nested.kind = "nested"
    /\ types["a"].specialization.kind = "specialization"
    /\ types["a"].nested.timeout_ms # types["a"].specialization.timeout_ms
    /\ timeout_ms["a"] = types["a"].nested.timeout_ms

\* A thread inside read() or write() on a cell whose timeout is not negative.
TimedCall(t) == pc[t] \in {"waiting", "probe_unlock"} /\ call[t].timeout_ms >= 0

\* The time a timed call has waited so far.
Waited(t) ==
    (call[t].attempt - 1) * call[t].timeout_ms
    + (call[t].timeout_ms - call[t].remaining)

\* C20: with timeout T >= 0 every read() and write() ends, whatever the
\* other threads do: the call makes at most two timed attempts of T each, so
\* it has never waited more than 2*T; it ends with a guard or with
\* lock_failed; and under fair scheduling it does end, also when the other
\* thread keeps its guard for ever.
C20_WaitedAtMost2T ==
    \A t \in Threads :
        TimedCall(t) =>
            /\ call[t].attempt \in {1, 2}
            /\ call[t].remaining \in 0..call[t].timeout_ms
            /\ Waited(t) <= 2 * timeout_ms[call[t].c]

C20_CallStep(t) ==
    TimedCall(t) =>
        /\ TimedCall(t)' =>
              /\ call'[t].c = call[t].c /\ call'[t].op = call[t].op
              /\ call'[t].timeout_ms = call[t].timeout_ms
              /\ Waited(t)' \in {Waited(t), Waited(t) + 1}
              /\ call'[t].attempt >= call[t].attempt
        /\ ~TimedCall(t)' =>
              /\ pc'[t] = "idle"
              /\ result'[t].kind \in {"guard", "lock_failed"}
              /\ result'[t].c = call[t].c
              /\ result'[t].kind = "lock_failed"
                    => /\ Waited(t) <= 2 * result'[t].timeout_value
                       /\ Waited(t) >= result'[t].timeout_value

C20_Ends == \A t \in Threads : []<>(~TimedCall(t))

C20_TimedCallTerminates ==
    /\ []C20_WaitedAtMost2T
    /\ [][\A t \in Threads : C20_CallStep(t)]_vars
    /\ C20_Ends

\* write() on a cell with a positive timeout has raised lock_failed after
\* both attempts, while the other thread still holds its write guard.
C20_Witness ==
    \E t, u \in Threads :
        /\ t # u /\ pc[t] = "idle"
        /\ result[t].kind = "lock_failed" /\ result[t].op = "write"
        /\ result[t].timeout_value > 0
        /\ ~result[t].try_again_value
        /\ HeldW(u, result[t].c) = 1


\* ---------------------------------------------------------------- C30
\* The lock of cell c can be taken at once by a call of the given kind.
C30_Available(op, c) ==
    IF op = "write" THEN try_lock_ok(c) ELSE try_lock_shared_ok(c)

\* A step in which read()/write() of thread t leaves the first, non-blocking
\* attempt for the blocking or the timed path.
C30_EntersWait(t) == pc[t] = "idle" /\ pc'[t] = "waiting"

\* C30: construction leaves the mutex of every cell free, and for every
\* timeout value (negative, 0, positive) a read()/write() goes on to the
\* blocking or timed path only when the first non-blocking attempt found the
\* lock taken: on an available lock the call returns its guard from the
\* first attempt.
C30_FirstAttemptSucceeds ==
    /\ \A c \in LiveCells : ~write_entered[c] /\ n_readers[c] = 0
    /\ [][\A t \in Threads :
            C30_EntersWait(t) =>
                /\ call'[t].op \in {"read", "write"}
                /\ ~C30_Available(call'[t].op, call'[t].c)]_vars

\* A write() on a free lock has returned its guard at once although the
\* timeout of the cell is 0.
C30_Witness ==
    \E t \in Threads, c \in LiveCells :
        /\ timeout_ms[c] = 0
        /\ result[t] = Returned("guard", "write", c)
        /\ pc[t] = "idle"
        /\ call[t] = NoCall
        /\ guards[t][NewGuard(c, "write", TRUE)] = 1
        /\ \A u \in Threads \ {t} : \A g \in Guards : guards[u][g] = 0


\* ---------------------------------------------------------------- C21
\* Thread t holds a write guard on c and no other thread holds a guard on c
\* whose px is set.
C21_SoleWriter(t, c) ==
    /\ HeldW(t, c) > 0
    /\ \A u \in Threads \ {t} : Held(u, c) = 0

C22_Released(t) == held_for[t].held /\ ~held_for'[t].held

\* The guard thread t holds is on a cell whose watcher is enabled, and it
\* has been held for longer than the threshold.
C22_TooLong(t) ==
    /\ 0 < verify_execution_time_ms[held_for[t].c]
    /\ verify_execution_time_ms[held_for[t].c] < held_for[t].time

C23_Destroyed(t) == vet[t].running /\ ~vet'[t].running

\* The object of thread t has run for longer than expected and no exception
\* is unwinding through the thread.
C23_Due(t) == vet[t].expected_time_ < vet[t].elapsed /\ ~unwinding[t]

\* C23: a report is made only by the step that destroys a VerifyExecutionTime
\* object, one report per object, and it is made iff the elapsed time is
\* greater than the expected time and no exception is unwinding; an object
\* destroyed because an exception leaves its scope reports nothing, however
\* long it ran.
C23_ReportsIffDueAtDestruction ==
    [][\A t \in Threads :
          /\ reports'[t] # reports[t] =>
                 C23_Destroyed(t) /\ C23_Due(t) /\ reports'[t] = reports[t] + 1
          /\ (C23_Destroyed(t) /\ C23_Due(t)) => reports'[t] = reports[t] + 1
          /\ (C23_Destroyed(t) /\ unwinding[t]) => reports'[t] = reports[t]]_vars

\* A scope that ran for longer than expected was left by an exception (the
\* handler is not reached yet) and nothing was reported.
C23_Witness ==
    \E t \in Threads :
        /\ unwinding[t]
        /\ ~vet[t].running
        /\ vet[t].owner = "scope"
        /\ vet[t].expected_time_ >= 0
        /\ vet[t].expected_time_ < vet[t].elapsed
        /\ reports[t] = 0

\* ---------------------------------------------------------------- C24
\* C24 as claimed, of the guards released in the normal course (no exception
\* unwinding): for every verify_execution_time_ms >= 0 the release of a
\* guard that was kept longer than that value makes a report, and for a
\* negative value no release makes one.
C24_ReportedFromZero ==
    [][\A t \in Threads :
          (C22_Released(t) /\ ~unwinding[t]) =>
              LET v == verify_execution_time_ms[held_for[t].c] IN
              /\ (v >= 0 /\ v < held_for[t].time) => reports'[t] = reports[t] + 1
              /\ v < 0 => reports'[t] = reports[t]]_vars


\* ---------------------------------------------------------------- C25
\* C25: with a spinning_barrier for n threads, whenever a thread has returned
\* from its k-th call of wait(), every one of the n threads has made its
\* k-th call; this holds in every round, also when step_ wraps.
C25_NWayRendezvous ==
    barrier.kind = "spinning" =>
        \A i, j \in 1..barrier.n_ : waiter[i].returns <= waiter[j].calls

\* All of MaxN threads have returned from the last round of a spinning
\* barrier, after step_ has wrapped.
C25_Witness ==
    /\ barrier.kind = "spinning"
    /\ barrier.n_ = MaxN
    /\ \A i \in Participants : waiter[i].returns = MaxRounds /\ waiter[i].pc = "idle"
    /\ \E i \in Participants : waiter[i].ret
    /\ \E i \in Participants : ~waiter[i].ret

\* ---------------------------------------------------------------- C26
\* A locking_barrier seen as a spinning_barrier: m_ is left out, a thread
\* that waits for m_ or owns it has called wait() and not arrived, and a
\* thread in cv_.wait spins.
C26_AsSpinning ==
    [b |-> [barrier EXCEPT !.kind = "spinning", !.m_ = 0],
     w |-> [i \in Participants |->
              [waiter[i] EXCEPT !.pc =
                  CASE @ = "locked" -> "called"
                    [] @ \in {"cv_wait", "notified"} -> "spinning"
                    [] OTHER -> @]]]

\* The arrival of thread i at a spinning_barrier, from the load of step_
\* to the spinning or to the return of the last thread.
C26_SpinningArrival(s, i) ==
    LET a == spinning_barrier_fetch_add(spinning_barrier_load(s, i), i)
    IN  IF a.w[i].pc = "last"
        THEN spinning_barrier_step_add(spinning_barrier_store(a, i), i)
        ELSE a

\* What a spinning_barrier in state s can come to by steps of one thread.
C26_SpinningSteps(s) ==
    {s} \cup {barrier_call(s, i) : i \in {j \in 1..s.b.n_ : s.w[j].pc = "idle"}}
        \cup {C26_SpinningArrival(s, i) :
                 i \in {j \in 1..s.b.n_ : s.w[j].pc = "called"}}
        \cup {spinning_barrier_leave(s, i) :
                 i \in {j \in 1..s.b.n_ : s.w[j].pc = "spinning"
                                           /\ s.b.step_ # s.w[j].step}}

\* A spinning_barrier seen as a locking_barrier whose m_ is free: a thread
\* that has loaded step_ has called wait() and not arrived, the last thread
\* has not arrived before it has added to step_, and a spinning thread
\* waits on cv_, notified when step_ has changed.
C26_AsLocking ==
    [b |-> [barrier EXCEPT !.kind = "locking", !.m_ = 0,
               !.nwait_ = IF \E i \in Participants : waiter[i].pc \in {"last", "stored"}
                          THEN barrier.n_ - 1 ELSE @],
     w |-> [i \in Participants |->
              [waiter[i] EXCEPT
                  !.pc = CASE @ \in {"loaded", "last", "stored"} -> "called"
                           [] @ = "spinning" ->
                                 IF barrier.step_ # waiter[i].step
                                 THEN "notified" ELSE "cv_wait"
                           [] OTHER -> @,
                  !.step = IF waiter[i].pc = "loaded" THEN 0 ELSE @]]]

\* What a locking_barrier in state s, m_ free, can come to by steps of one
\* thread that end with m_ free again.
C26_LockingSteps(s) ==
    {s} \cup {barrier_call(s, i) : i \in {j \in 1..s.b.n_ : s.w[j].pc = "idle"}}
        \cup {locking_barrier_arrive(locking_barrier_lock(s, i), i) :
                 i \in {j \in 1..s.b.n_ : s.w[j].pc = "called"}}
        \cup {locking_barrier_woken(s, i) :
                 i \in {j \in 1..s.b.n_ : s.w[j].pc = "notified"}}

\* Round k of a locking_barrier: all its threads have called wait() for the
\* k-th time; all of them have returned from that call.
C26_AllCalled(k) ==
    barrier.kind = "locking" /\ \A i \in 1..barrier.n_ : waiter[i].calls >= k

C26_AllReturned(k) == \A i \in 1..barrier.n_ : waiter[i].returns >= k

\* C26: locking_barrier behaves like spinning_barrier.  Every step of a
\* locking_barrier is, for the calls made, the threads released, the values
\* returned, nwait_ and step_, a step of a spinning_barrier or the steps of
\* one arrival at it, and every step of a spinning_barrier is in the same
\* way a step of a locking_barrier; and when all n threads have called
\* wait() in a round of a locking_barrier, every one of them returns from
\* it (no wake-up is lost).
C26_LockingLikeSpinning ==
    /\ [][barrier.kind = "locking" => C26_AsSpinning' \in C26_SpinningSteps(C26_AsSpinning)]_vars
    /\ [][barrier.kind = "spinning" => C26_AsLocking' \in C26_LockingSteps(C26_AsLocking)]_vars
    /\ \A k \in 1..MaxRounds : C26_AllCalled(k) ~> C26_AllReturned(k)

\* All of MaxN threads have returned from the last round of a locking
\* barrier, one of them with true.
C26_Witness ==
    /\ barrier.kind = "locking"
    /\ barrier.n_ = MaxN
    /\ \A i \in Participants : waiter[i].returns = MaxRounds /\ waiter[i].pc = "idle"
    /\ \E i \in Participants :
          /\ waiter[i].ret
          /\ \A j \in Participants \ {i} : ~waiter[j].ret


\* ---------------------------------------------------------------- C27
\* The lock_failed that thread t has caught carries a backtrace that begins
\* in the failed call: the constructor of the guard, called by read() or
\* write().
C27_HasBacktrace(t) ==
    /\ Len(result[t].backtrace) >= 2
    /\ result[t].backtrace[1] =
           (IF result[t].op = "write" THEN "write_ptr" ELSE "read_ptr")
    /\ result[t].backtrace[2] = result[t].op

\* C27 as claimed: every lock_failed of a failed read() or write() carries
\* a backtrace taken at the failed acquisition, in every thread.
C27_EveryLockFailedHasBacktrace ==
    \A t \in Threads : result[t].kind = "lock_failed" => C27_HasBacktrace(t)

\* C27 amended: in a build that does not define SHARED_STATE_NO_BACKTRACE,
\* every lock_failed of a failed read() or write() carries a backtrace taken
\* at the failed acquisition, in every thread that takes part in a deadlock.
C27_BacktraceUnlessDisabled ==
    ~SHARED_STATE_NO_BACKTRACE => C27_EveryLockFailedHasBacktrace

\* A deadlock on one cell: both threads hold a read guard and the write() of
\* both has failed; each lock_failed has its backtrace.
C27_Witness ==
    /\ ~SHARED_STATE_NO_BACKTRACE
    /\ \A t \in Threads :
          /\ result[t].kind = "lock_failed"
          /\ result[t].op = "write"
          /\ HeldR(t, result[t].c) > 0
          /\ C27_HasBacktrace(t)

\* ---------------------------------------------------------------- C28
\* The types an exception object of type E is of: E and its base classes.
C28_Ancestors(E) == Bases(E) \cup UNION {Bases(B) : B \in Bases(E)}

C28_OfType(E, X) == E = X \/ X \in C28_Ancestors(E)

C28_Over == expect.step \in {"completed", "left"}

\* C28: a use of EXPECT_EXCEPTION (X, F) that is over has completed normally
\* exactly if F threw an exception of type X; if F threw an exception that
\* is a std::exception and not of type X the macro has thrown
\* unexptected_exception, and if F threw nothing it has thrown
\* exptected_exception.
C28_ExpectException ==
    C28_Over =>
        /\ expect.step = "completed" <=>
               expect.F # "nothing" /\ C28_OfType(expect.F, expect.X)
        /\ (/\ expect.F # "nothing"
            /\ ~C28_OfType(expect.F, expect.X)
            /\ C28_OfType(expect.F, "std::exception"))
               => expect.step = "left"
                  /\ expect.raised = "unexptected_exception"
        /\ expect.F = "nothing"
               => expect.step = "left"
                  /\ expect.raised = "exptected_exception"

\* F has thrown shared_state::lock_failed where lock_failed was expected, and
\* the macro has completed normally.
C28_Witness ==
    /\ expect.step = "completed"
    /\ expect.X = "lock_failed"
    /\ expect.F = "shared_state::lock_failed"
    /\ expect.thrown

\* ---------------------------------------------------------------- C29
C29_Throwing(k) == k.class = "ThrowInConstructor"

\* C29: when the constructor of T has thrown and the exception has reached
\* the caller, it is the exception that was thrown, the storage of the object
\* is freed, its constructed member is destroyed and the destructor of
\* T has not run; and no step of such a construction makes a cell, changes
\* who owns a cell, or touches a mutex or a guard, nor is the object ever
\* complete.
C29_ThrowingConstructor ==
    /\ [](construction.step = "propagated" =>
              /\ construction.exception = [type |-> "int", value |-> 1]
              /\ ~construction.allocated
              /\ ~construction.inner
              /\ construction.inner_destructor
              /\ ~construction.outer_destructor)
    /\ [][C29_Throwing(construction) \/ C29_Throwing(construction') =>
              /\ construction'.step # "built"
              /\ LiveCells' = LiveCells
              /\ UNCHANGED <<lock_state, watcher, owners>>]_vars

\* new for a shared_state, next to a cell that was made before: the
\* constructor has thrown and the exception has reached the caller.
C29_Witness ==
    /\ construction.step = "propagated"
    /\ construction.class = "ThrowInConstructor"
    /\ construction.storage = "new"
    /\ LiveCells = {"a"}

\* ---------------------------------------------------------------- C31
\* Thread t holds a read guard on cell c and is inside a second read() on
\* it, which waits because thread u has entered as a writer with a write()
\* that it is still inside of.
C31_WriterBetweenReads(t, u, c) ==
    /\ t # u
    /\ HeldR(t, c) > 0
    /\ pc[t] \in {"waiting", "probe_unlock"}
    /\ call[t].op = "read" /\ call[t].c = c
    /\ pc[u] \in {"waiting", "probe_unlock"}
    /\ call[u].op = "write" /\ call[u].c = c

\* C31 (as stated): when a write() of one thread has come between the two
\* read() of another, the second read() ends with lock_failed and the
\* write() ends with lock_failed.
C31_BothReadAndWriteFail ==
    [][\A t, u \in Threads, c \in LiveCells :
          C31_WriterBetweenReads(t, u, c) =>
              /\ pc'[t] = "idle" => result'[t].kind = "lock_failed"
              /\ pc'[u] = "idle" => result'[u].kind = "lock_failed"]_vars

\* ---------------------------------------------------------------- C32
\* Thread t leaves read() or write() with a lock_failed whose second timed
\* attempt did not obtain the lock: no attempt of the call found the lock
\* free.
C32_FailsWithLockHeld(t) ==
    /\ TimedCall(t)
    /\ call[t].timeout_ms > 0
    /\ pc'[t] = "idle"
    /\ result'[t].kind = "lock_failed"
    /\ ~result'[t].try_again_value

\* C32: a read() or write() with timeout T > 0 that fails without having
\* found the lock free has made two timed attempts and has waited T in each:
\* lock_failed is raised when 2*T have passed since the call began, not
\* before.
C32_FailsAfterTwoTimeouts ==
    [][\A t \in Threads :
          C32_FailsWithLockHeld(t) =>
              /\ call[t].attempt = 2
              /\ Waited(t) >= 2 * timeout_ms[call[t].c]
              /\ result'[t].timeout_value = timeout_ms[call[t].c]]_vars

\* A write() with a timeout above 0 has failed after both attempts while
\* the other thread kept its guard.
C32_Witness ==
    \E t, u \in Threads :
        /\ t # u
        /\ result[t].kind = "lock_failed"
        /\ result[t].op = "write"
        /\ result[t].timeout_value > 0
        /\ ~result[t].try_again_value
        /\ Held(u, result[t].c) > 0

\* ---------------------------------------------------------------- C33
\* The guard of a try_read() or try_write() on cell c that failed.
C33_Empty(c, mode) == [c |-> c, mode |-> mode, px |-> FALSE]
C33_Locked(c, mode) == [c |-> c, mode |-> mode, px |-> TRUE]

\* A step in which thread t gets an empty guard on cell c from try_read() or
\* try_write().
C33_TryFails(t, c, mode) ==
    /\ pc[t] = "idle" /\ pc'[t] = "idle"
    /\ guards'[t][C33_Empty(c, mode)] = guards[t][C33_Empty(c, mode)] + 1
    /\ guards'[t][C33_Locked(c, mode)] = guards[t][C33_Locked(c, mode)]

\* A step that leaves every locked guard on cell c and every call as it is:
\* no thread is or gets inside lock() or unlock(), and no thread has more or
\* fewer guards that own a share of the lock of c.
C33_NoLockedGuardChanges(c) ==
    \A t \in Threads :
        /\ pc[t] \in {"off", "idle"} /\ pc'[t] \in {"off", "idle"}
        /\ \A mode \in {"read", "write"} :
              guards'[t][C33_Locked(c, mode)] = guards[t][C33_Locked(c, mode)]

\* C33: a try_read() or try_write() that fails returns an empty guard and
\* leaves the mutex, the guards of the other threads, the watchers and the
\* calls in progress as they are; and a step that changes no locked guard,
\* as unlock() on an empty guard and its destruction, leaves the mutex as
\* it is.
C33_FailedTryChangesNothing ==
    [][/\ \A t \in Threads, c \in LiveCells, mode \in {"read", "write"} :
              C33_TryFails(t, c, mode) =>
                  /\ result'[t].kind = "empty"
                  /\ result'[t].c = c
                  /\ UNCHANGED <<write_entered, n_readers, watched, resetting,
                                 call, timeout_ms>>
                  /\ \A u \in Threads \ {t} : guards'[u] = guards[u]
       /\ \A c \in LiveCells :
              C33_NoLockedGuardChanges(c) =>
                  /\ write_entered'[c] = write_entered[c]
                  /\ n_readers'[c] = n_readers[c]]_vars

\* A try_write() has failed while the other thread holds a watched guard,
\* and its empty guard is there.
C33_Witness ==
    \E t, u \in Threads :
        /\ t # u
        /\ result[t].kind = "empty"
        /\ result[t].op = "try_write"
        /\ guards[t][C33_Empty("a", "write")] > 0
        /\ watched[u][C33_Locked("a", "read")] > 0

\* ---------------------------------------------------------------- C34
C34_Locked(c, mode) == [c |-> c, mode |-> mode, px |-> TRUE]

\* The guards of all threads on cell c that hold the lock in the given mode.
C34_Holders(c, mode) ==
    Sum([t \in Threads |-> guards[t][C34_Locked(c, mode)]], Threads)

\* Every acquisition that has not been released is a guard with px # 0 (or
\* the second attempt of a lock() that is about to give it back), and the
\* other way round: as many shared owners as read guards, a writer inside
\* exactly if a write guard is there or a write() is on its way.
C34_SharesMatchGuards ==
    \A c \in LiveCells :
        /\ n_readers[c] = C34_Holders(c, "read")
               + Cardinality({t \in Threads : Probing(t, "read", c)})
        /\ C34_Holders(c, "write") <= 1
        /\ C34_Holders(c, "write") = 1 => write_entered[c]
        /\ write_entered[c] =>
               \/ C34_Holders(c, "write") = 1
               \/ \E t \in Threads : Probing(t, "write", c) \/ Entered(t, c)

\* A step of thread t outside lock() that changes the mutex of cell c
\* takes away or adds exactly one guard of t that holds the lock, and
\* releases or obtains exactly its share.
C34_OneShare(t, c) ==
    LET r == guards'[t][C34_Locked(c, "read")] - guards[t][C34_Locked(c, "read")]
        w == guards'[t][C34_Locked(c, "write")] - guards[t][C34_Locked(c, "write")]
    IN  /\ n_readers'[c] = n_readers[c] + r
        /\ r \in {-1, 0, 1} /\ w \in {-1, 0, 1}
        /\ w = -1 => write_entered[c] /\ ~write_entered'[c]
        /\ w = 1 => ~write_entered[c] /\ write_entered'[c]
        /\ w = 0 => write_entered'[c] = write_entered[c]

\* C34: the shares of every mutex and the guards that hold it match in
\* every state; a step of a thread outside lock() changes the mutex by
\* exactly the share of the one guard that stops or starts to hold the lock;
\* so unlock() on a guard with px = 0, a destructor after unlock(), the
\* destructor of a guard that was moved from, and the move itself leave the
\* mutex as it is, and the share goes back once, when the guard that holds
\* it is unlocked or destroyed.
C34_ReleasedExactlyOnce ==
    /\ []C34_SharesMatchGuards
    /\ [][\A t \in Threads, c \in LiveCells :
             (pc[t] = "idle" /\ pc'[t] \in {"idle", "resetting"})
                 => C34_OneShare(t, c)]_vars

\* A read guard with a watcher was moved from, and the guard it was moved to
\* has been unlocked: both are there with px = 0 and the mutex is free.
C34_Witness ==
    /\ watched["t1"][[c |-> "a", mode |-> "read", px |-> FALSE]] = 1
    /\ guards["t1"][[c |-> "a", mode |-> "read", px |-> FALSE]] = 2
    /\ C34_Holders("a", "read") = 0
    /\ n_readers["a"] = 0
    /\ pc["t1"] = "idle"

\* ---------------------------------------------------------------- C35
\* C35 (as stated): the watcher is with the guard that holds the lock: every
\* guard with px # 0 on a cell whose type asks for a watcher has a running
\* one, also a guard that was move-constructed, and no guard with px = 0
\* has one.
C35_WatcherStaysWithHolder ==
    \A t \in Threads, g \in Guards :
        /\ (g.px /\ g.c \in LiveCells /\ watcher_wanted(g.c))
               => watched[t][g] = guards[t][g]
        /\ ~g.px => watched[t][g] = 0

\* ------------------------------------- which report function is called
\* The programs of one thread that takes and releases guards of one cell,
\* and installs and clears the default report function at any time.
DefaultReportNext ==
    \/ \E t \in Threads, c \in LiveCells :
          MayLock(t) /\ write_ptr_lock(t, c) /\ VerifyExecutionTime_start(t)
          /\ pc_start(t)
    \/ \E t \in Threads, c \in LiveCells :
          MayLock(t) /\ read_ptr_lock(t, c) /\ VerifyExecutionTime_start(t)
          /\ pc_start(t)
    \/ \E t \in Threads, c \in LiveCells :
          MayLock(t) /\ write_ptr_no_lock_failed(t, c)
          /\ VerifyExecutionTime_start(t) /\ pc_start(t)
    \/ \E t \in Threads, c \in LiveCells :
          MayLock(t) /\ read_ptr_no_lock_failed(t, c)
          /\ VerifyExecutionTime_start(t) /\ pc_start(t)
    \/ \E t \in Threads, g \in Guards :
          Unwatched_guard(t, g) /\ unlock(t, g)
          /\ UNCHANGED <<watcher, owners>> /\ let_go(t, g)
    \/ \E t \in Threads, g \in Guards :
          Unwatched_guard(t, g) /\ destroy(t, g)
          /\ UNCHANGED <<watcher, owners>> /\ let_go(t, g)
    \/ \E t \in Threads, g \in Guards, dtor \in BOOLEAN :
          l_unlock(t, g, dtor) /\ UNCHANGED apart
    \/ \E t \in Threads : pc_reset(t) /\ pc_reset_reports(t)
    \/ \E report_func \in ReportFuncs \cup {"0"} :
          set_default_report(report_func)
    \/ elapse

DefaultReportSpec == ReportInit /\ [][DefaultReportNext]_vars

\* What start() takes for an empty report_func while d is the default.
C36_DefaultAt(d) == IF d = "0" THEN "default_report" ELSE d

\* C36: the report function of a held-too-long warning is chosen when the
\* lock is acquired, not when it is released.  With report_func = 0 in the
\* traits, the watcher that a guard gets takes the default report installed
\* at that moment (the built-in report when none is installed), it keeps
\* that function for as long as it runs whatever default is installed or
\* cleared meanwhile, and a report made at release calls that function.
C36_ReportChosenAtAcquisition ==
    [][\A t \in Threads :
          /\ (~vet[t].running /\ vet'[t].running) =>
                 vet'[t].report_func_ = C36_DefaultAt(default_report_func_)
          /\ (vet[t].running /\ vet'[t].running) =>
                 vet'[t].report_func_ = vet[t].report_func_
          /\ reports'[t] # reports[t] =>
                 /\ vet[t].running
                 /\ called'[t].func = vet[t].report_func_
          /\ reports'[t] = reports[t] => called'[t] = called[t]]_vars

\* A guard was held too long and its release has called the function f1
\* that was the default at acquisition, though the default had been cleared
\* by then.
C36_Witness ==
    \E t \in Threads :
        /\ reports[t] > 0
        /\ vet[t].owner = "guard"
        /\ called[t] = [func |-> "f1", default_then |-> "0"]

\* ------------------------------------------ SHARED_STATE_NO_SHARED_MUTEX
\* class shared_state_mutex: public std::timed_mutex, with lock_shared(),
\* try_lock_shared(), unlock_shared() and try_lock_shared_for() mapped to
\* lock(), try_lock(), unlock() and try_lock_for().  The mutex of a cell is
\* locked when write_entered is set; n_readers is not used.  read_ptr and
\* write_ptr are the same code as before, over this mutex.
no_shared_try_lock(c) == ~write_entered[c]

\* The kind of guard that read() and try_read(), write() and try_write() make.
no_shared_mode(op) == IF op \in {"read", "try_read"} THEN "read" ELSE "write"

\* read_ptr::lock() and write_ptr::lock(), up to the first wait:
\* l.try_lock_shared() and l.try_lock() are both try_lock().
no_shared_lock(t, c, op) ==
    /\ CanConstruct(t)
    /\ IF no_shared_try_lock(c)
       THEN /\ write_entered' = [write_entered EXCEPT ![c] = TRUE]
            /\ PutGuard(t, NewGuard(c, no_shared_mode(op), TRUE))
            /\ result' = [result EXCEPT ![t] = Returned("guard", op, c)]
            /\ UNCHANGED <<pc, call>>
       ELSE /\ pc' = [pc EXCEPT ![t] = "waiting"]
            /\ call' = [call EXCEPT ![t] = StartWait(op, c)]
            /\ result' = [result EXCEPT ![t] = NoResult]
            /\ UNCHANGED <<write_entered, guards>>
    /\ UNCHANGED <<timeout_ms, n_readers>>
    /\ UNCHANGED outside_lock

\* The no_lock_failed constructors: one try_lock(); px = 0 when it fails.
no_shared_no_lock_failed(t, c, op) ==
    /\ CanConstruct(t)
    /\ IF no_shared_try_lock(c)
       THEN /\ write_entered' = [write_entered EXCEPT ![c] = TRUE]
            /\ PutGuard(t, NewGuard(c, no_shared_mode(op), TRUE))
            /\ result' = [result EXCEPT ![t] = Returned("guard", op, c)]
       ELSE /\ PutGuard(t, NewGuard(c, no_shared_mode(op), FALSE))
            /\ result' = [result EXCEPT ![t] = Returned("empty", op, c)]
            /\ UNCHANGED write_entered
    /\ UNCHANGED <<timeout_ms, n_readers, pc, call>>
    /\ UNCHANGED outside_lock

\* lock(): l.lock() or the first l.try_lock_for(timeout_ms), shared or not,
\* returns with the lock.
no_shared_lock_got(t) ==
    /\ pc[t] = "waiting"
    /\ call[t].attempt \in {0, 1}
    /\ no_shared_try_lock(call[t].c)
    /\ write_entered' = [write_entered EXCEPT ![call[t].c] = TRUE]
    /\ PutGuard(t, NewGuard(call[t].c, no_shared_mode(call[t].op), TRUE))
    /\ result' = [result EXCEPT ![t] =
                     Returned("guard", call[t].op, call[t].c)]
    /\ pc' = [pc EXCEPT ![t] = "idle"]
    /\ call' = [call EXCEPT ![t] = NoCall]
    /\ UNCHANGED <<timeout_ms, n_readers>>
    /\ UNCHANGED outside_lock

\* The timed wait of try_lock_for is over without the lock.
no_shared_timed_out(t) ==
    /\ call[t].attempt # 0
    /\ call[t].remaining <= 0
    /\ write_entered[call[t].c]

\* lock(): the first timed attempt returns false.
no_shared_lock_retry(t) ==
    /\ pc[t] = "waiting"
    /\ call[t].attempt = 1
    /\ no_shared_timed_out(t)
    /\ call' = [call EXCEPT ![t].attempt = 2,
                            ![t].remaining = call[t].timeout_ms]
    /\ UNCHANGED <<timeout_ms, write_entered, n_readers, guards, pc, result>>
    /\ UNCHANGED outside_lock

\* lock(): bool try_again of the second timed attempt is true.
no_shared_lock_try_again(t) ==
    /\ pc[t] = "waiting"
    /\ call[t].attempt = 2
    /\ no_shared_try_lock(call[t].c)
    /\ write_entered' = [write_entered EXCEPT ![call[t].c] = TRUE]
    /\ pc' = [pc EXCEPT ![t] = "probe_unlock"]
    /\ UNCHANGED <<timeout_ms, n_readers, guards, call, result>>
    /\ UNCHANGED outside_lock

\* lock(): if (try_again) l.unlock() or l.unlock_shared(); then the throw.
no_shared_lock_unlock_throw(t) ==
    /\ pc[t] = "probe_unlock"
    /\ write_entered' = [write_entered EXCEPT ![call[t].c] = FALSE]
    /\ result' = [result EXCEPT ![t] =
                     lock_failed(call[t].op, call[t].c, call[t].timeout_ms, TRUE)]
    /\ pc' = [pc EXCEPT ![t] = "idle"]
    /\ call' = [call EXCEPT ![t] = NoCall]
    /\ UNCHANGED <<timeout_ms, n_readers, guards>>
    /\ UNCHANGED outside_lock

\* lock(): the second timed attempt returns false.
no_shared_lock_throw(t) ==
    /\ pc[t] = "waiting"
    /\ call[t].attempt = 2
    /\ no_shared_timed_out(t)
    /\ result' = [result EXCEPT ![t] =
                     lock_failed(call[t].op, call[t].c, call[t].timeout_ms, FALSE)]
    /\ pc' = [pc EXCEPT ![t] = "idle"]
    /\ call' = [call EXCEPT ![t] = NoCall]
    /\ UNCHANGED <<timeout_ms, write_entered, n_readers, guards>>
    /\ UNCHANGED outside_lock

\* unlock() (gone = FALSE) and the destructor (gone = TRUE) of a guard: if
\* (px) l.unlock() or l.unlock_shared(), which is unlock().
no_shared_unlock(t, g, gone) ==
    /\ pc[t] = "idle"
    /\ guards[t][g] > 0
    /\ write_entered' = [write_entered EXCEPT ![g.c] = IF g.px THEN FALSE ELSE @]
    /\ guards' = IF gone THEN [guards EXCEPT ![t][g] = @ - 1]
                 ELSE [guards EXCEPT ![t][g] = @ - 1,
                                     ![t][[g EXCEPT !.px = FALSE]] = @ + 1]
    /\ UNCHANGED <<timeout_ms, n_readers, pc, call, result>>
    /\ UNCHANGED outside_lock

\* Two threads and one cell, as in Spec.  A thread does not ask for a guard
\* of a cell that it holds a locked guard of: locking a std::timed_mutex
\* that the thread owns is undefined.
NoSharedNext ==
    \/ \E t \in Threads, c \in LiveCells, op \in {"read", "write"} :
          Held(t, c) = 0 /\ no_shared_lock(t, c, op)
    \/ \E t \in Threads, c \in LiveCells, op \in {"try_read", "try_write"} :
          Held(t, c) = 0 /\ no_shared_no_lock_failed(t, c, op)
    \/ \E t \in Threads : no_shared_lock_got(t)
    \/ \E t \in Threads : no_shared_lock_retry(t)
    \/ \E t \in Threads : no_shared_lock_try_again(t)
    \/ \E t \in Threads : no_shared_lock_unlock_throw(t)
    \/ \E t \in Threads : no_shared_lock_throw(t)
    \/ \E t \in Threads, g \in Guards, gone \in BOOLEAN :
          no_shared_unlock(t, g, gone)
    \/ Tick

NoSharedSpec == Init /\ [][NoSharedNext]_vars

\* A writer is about on cell c: a thread holds a write guard of it or is
\* inside write() on it.  With the readers-writer mutex a shared request
\* waits or fails at no other time.
C37_WriterAbout(c) ==
    \E u \in Threads :
        \/ HeldW(u, c) > 0
        \/ pc[u] \in {"waiting", "probe_unlock"} /\ call[u].op = "write"
                                                  /\ call[u].c = c

\* The call of thread t ends in this step at a locked mutex: try_read()
\* returns an empty guard, or read() throws lock_failed after a second wait
\* that timed out.
C37_ReadFails(t) ==
    /\ result'[t] # result[t]
    /\ \/ result'[t].op = "try_read" /\ result'[t].kind = "empty"
       \/ /\ result'[t].op = "read" /\ result'[t].kind = "lock_failed"
          /\ ~result'[t].try_again_value

\* No guard holds the lock of a cell beside a write guard that holds it.
C37_WriterExclusion ==
    \A c \in LiveCells : AllHeldW(c) > 0 => AllHeldW(c) + AllHeldR(c) = 1

\* C37 (as stated): with shared locking mapped to the exclusive locking of a
\* plain mutex, every outcome of read(), write() and the try_ calls is one
\* that the readers-writer mutex allows, so a read() or try_read() ends
\* without a locked guard only when a writer is about on the cell; and a
\* write guard that holds the lock is the only guard that does.
C37_ValidReplacement ==
    /\ []C37_WriterExclusion
    /\ [][\A t \in Threads :
             C37_ReadFails(t) => C37_WriterAbout(result'[t].c)]_vars

\* ---------------------------------------------------------------- C38
\* Thread i has been counted in its round and waits for step_ to change.
C38_Waits(i) == waiter[i].pc \in {"spinning", "cv_wait", "notified"}

\* Round k is complete: a thread has returned from its k-th call of wait().
C38_Complete(k) == \E j \in 1..barrier.n_ : waiter[j].returns >= k

C38_AllEntered(k) == \A i \in 1..barrier.n_ : waiter[i].calls >= k

C38_AllLeft(k) == \A i \in 1..barrier.n_ : waiter[i].returns >= k

\* No thread of a barrier of either kind has returned from more calls of
\* wait() than every thread has made.
C38_NoneLeavesEarly ==
    \A i, j \in 1..barrier.n_ : waiter[i].returns <= waiter[j].calls

\* A thread that waits in a round that is complete sees a step_ that
\* differs from the one it read on arrival.
C38_ReleasedWhenComplete ==
    \A i \in 1..barrier.n_ :
        (C38_Waits(i) /\ C38_Complete(waiter[i].calls)) =>
            barrier.step_ # waiter[i].step

\* C38: the barriers stay correct when step_ wraps around.  With step_
\* counted modulo 2 ^ StepBits, in every round of a spinning_barrier and of
\* a locking_barrier no thread returns from wait() before all n threads
\* have called it, a thread that waits in a completed round finds step_
\* changed, and once all n threads have entered a round every one of them
\* leaves it.
C38_CorrectWhenStepWraps ==
    /\ []C38_NoneLeavesEarly
    /\ []C38_ReleasedWhenComplete
    /\ \A k \in 1..MaxRounds : C38_AllEntered(k) ~> C38_AllLeft(k)

\* Two or more threads have left a round in which step_ has wrapped to the
\* value it had before the round before: a thread that waited has returned.
C38_Witness ==
    /\ barrier.n_ >= 2
    /\ barrier.step_ = 0
    /\ \A i \in 1..barrier.n_ :
          waiter[i].returns = 2 ^ StepBits /\ waiter[i].pc = "idle"
    /\ \E i \in 1..barrier.n_ : ~waiter[i].ret

\* ---------------------------------------------------------------- C39
\* Thread j has been counted in round k and waits there.
C39_WaitsIn(j, k) ==
    /\ waiter[j].pc \in {"spinning", "cv_wait", "notified"}
    /\ waiter[j].calls = k
    /\ waiter[j].returns = k - 1

\* The other threads of the barrier that wait in the round thread i is in.
C39_Others(i) ==
    {j \in (1..barrier.n_) \ {i} : C39_WaitsIn(j, waiter[i].calls)}

\* Thread i is counted in this step: nwait_.fetch_add (1), nwait_++.
C39_IsCounted(i) ==
    /\ waiter[i].pc \in {"loaded", "locked"}
    /\ waiter'[i].pc # waiter[i].pc

\* Thread i returns from wait() in this step.
C39_Returns(i) == waiter'[i].returns = waiter[i].returns + 1

\* The threads whose latest return was from round k, and those of them
\* that returned true.
C39_Done(k) == {i \in 1..barrier.n_ : waiter[i].returns = k}

C39_True(k) == {i \in C39_Done(k) : waiter[i].ret}

\* Of the calls of a round, at most one has returned true, and exactly one
\* when all n have returned.
C39_OneTrue ==
    \A k \in 1..MaxRounds :
        /\ Cardinality(C39_True(k)) <= 1
        /\ C39_Done(k) = 1..barrier.n_ => Cardinality(C39_True(k)) = 1

\* C39: in every round of a barrier used by exactly n threads, exactly one
\* call of wait() returns true, the call of the last thread to arrive, and
\* the other n - 1 calls return false; and when a thread is counted, nwait_
\* is the number of threads that wait in the same round, so it was back at
\* 0 before the first thread of a round is counted.
C39_OneTruePerRound ==
    /\ []C39_OneTrue
    /\ [][\A i \in 1..barrier.n_ :
             /\ C39_IsCounted(i) =>
                    /\ barrier.nwait_ = Cardinality(C39_Others(i))
                    /\ C39_Others(i) = (1..barrier.n_) \ {i} <=>
                           \/ waiter'[i].pc = "last"
                           \/ C39_Returns(i) /\ waiter'[i].ret
             /\ C39_Returns(i) =>
                    waiter'[i].ret = (C39_Others(i) = (1..barrier.n_) \ {i})]_vars

\* All of MaxN threads have returned from the second round of a barrier:
\* one with true, the others with false, and nwait_ is 0.
C39_Witness ==
    /\ barrier.n_ = MaxN
    /\ barrier.nwait_ = 0
    /\ C39_Done(2) = 1..barrier.n_
    /\ Cardinality(C39_True(2)) = 1
    /\ \A i \in 1..barrier.n_ : waiter[i].pc = "idle"

\* ------------------------------------------------------------- TaskTimer
\* thread_info_map.size ().
thread_info_map_size(m) ==
    Cardinality({t \in DOMAIN m : m[t].registered})

\* static ThreadInfo& T(): the entry of the calling thread, inserted with
\* threadNumber = thread_info_map.size () when the map has none.
T(m, t) ==
    IF m[t].registered THEN m
    ELSE [m EXCEPT ![t] = [registered |-> TRUE,
                           threadNumber |-> thread_info_map_size(m),
                           counter |-> 0]]

\* A step of TaskTimer under staticLock.
tasktimer_step(next) ==
    /\ thread_info_map' = next
    /\ UNCHANGED <<lock_state, watcher, owners, beside_thread_info_map>>

\* TaskTimer::init: ++T().counter[this->logLevel]; the thread logs.
TaskTimer_init(t) ==
    /\ thread_info_map[t].counter < MaxDepth
    /\ tasktimer_step([T(thread_info_map, t) EXCEPT ![t].counter = @ + 1])

\* TaskTimer::~TaskTimer: ThreadInfo& t = T(); --t.counter[logLevel].
TaskTimer_dtor(t) ==
    /\ thread_info_map[t].counter > 0
    /\ tasktimer_step([T(thread_info_map, t) EXCEPT ![t].counter = @ - 1])

\* TaskTimer::this_thread_quit: thread_info_map.erase (get_id ()), by a
\* thread that has no TaskTimer left.
this_thread_quit(t) ==
    /\ thread_info_map[t].registered
    /\ thread_info_map[t].counter = 0
    /\ tasktimer_step([thread_info_map EXCEPT ![t] = NoThreadInfo])

\* A TaskTimer program: nothing has been logged when it starts.
TaskTimerInit == Init

TaskTimerNext ==
    \/ \E t \in LogThreads : TaskTimer_init(t)
    \/ \E t \in LogThreads : TaskTimer_dtor(t)
    \/ \E t \in LogThreads : this_thread_quit(t)

TaskTimerSpec == TaskTimerInit /\ [][TaskTimerNext]_vars

\* ---------------------------------------------------------------- C40
\* C40 (as stated): TaskTimer distinguishes threads.  Any two threads that
\* have an entry in thread_info_map at the same time have different
\* thread numbers.
C40_DistinctThreadNumbers ==
    \A t, u \in LogThreads :
        (t # u /\ thread_info_map[t].registered /\ thread_info_map[u].registered)
            => thread_info_map[t].threadNumber # thread_info_map[u].threadNumber

====
